---- MODULE Spec2Model ----
(***************************************************************************)
(* A model of the aeorank audit engine: acquisition of a domain snapshot   *)
(* (site-crawler.ts: prefetchSiteData), the audit pipeline (audit.ts), the *)
(* 23 criterion evaluators (site-crawler.ts, checkLlmsTxt ..) and the     *)
(* score aggregator (scoring.ts: calculateOverallScore).                   *)
(*                                                                         *)
(* Texts.  The program reads a document's text only through regular        *)
(* expressions, substring tests and lengths.  A text is therefore modelled *)
(* by what those observations return:                                      *)
(*   len      text.length                                                  *)
(*   textLen  length after tags are stripped and whitespace is collapsed   *)
(*   visLen   the same after <script> and <style> blocks are removed too   *)
(*   m        the bag of pattern matches: CopiesIn(p, m) is the number of  *)
(*            matches of pattern p in the text (0 = the pattern does not   *)
(*            match).  Concatenating texts adds their bags.                *)
(*   phones   the phone-shaped matches, each with its digits and whether a *)
(*            context keyword stands within 100 characters of it           *)
(*   lastmods the bag of <lastmod> values, as day numbers (NaN = no date)  *)
(*   firstDef the offset in the tag-stripped text at which the first match  *)
(*            of a definition pattern ends (NoMatch = there is none)       *)
(*   ldBlocks the number of <script type="application/ld+json"> blocks     *)
(*   ldQuoted the lowercased names that stand quoted inside those blocks   *)
(*   ldProps  the lowercased names that stand there as a property ("x":)   *)
(***************************************************************************)
EXTENDS Integers, Sequences, FiniteSets, Bags, TLC

\* null, for a value that is an object otherwise (a document, a URL)
Null == [null |-> TRUE]
\* null, for a value that is a string otherwise (protocol, category)
None == "none"
\* null or '', for a value that is a host name otherwise (redirectedTo)
NoDomain == <<>>

Min(a, b) == IF a <= b THEN a ELSE b
Max(a, b) == IF a >= b THEN a ELSE b

(***************************************************************************)
(* Texts and documents                                                     *)
(***************************************************************************)
\* String.prototype.search's "no match"
NoMatch == -1

EmptyText ==
  [len |-> 0, textLen |-> 0, visLen |-> 0, m |-> EmptyBag, phones |-> {},
   lastmods |-> EmptyBag, firstDef |-> NoMatch, ldBlocks |-> 0, ldQuoted |-> {}, ldProps |-> {}]

\* a text of the given lengths in which every pattern of S matches once
Text(len, S) ==
  [EmptyText EXCEPT !.len = len, !.textLen = len, !.visLen = len, !.m = SetToBag(S)]

\* pattern.test(text) / text.includes(pattern)
Has(text, p) == BagIn(p, text.m)
\* (text.match(/pattern/g) || []).length
Count(text, p) == CopiesIn(p, text.m)
\* schemaText.includes('"name"'), schemaText being the lowercased JSON-LD blocks
LdHas(text, name) == name \in text.ldQuoted \/ name \in text.ldProps
\* /"name"\s*:/.test(schemaText)
LdHasProp(text, name) == name \in text.ldProps

\* FetchResult { text, status, finalUrl?, category? }
Doc(status, text) == [status |-> status, text |-> text, finalUrl |-> Null, category |-> None]

\* the sum of f[x] over the finite set S
RECURSIVE SumOver(_, _)
SumOver(f, S) ==
  IF S = {} THEN 0 ELSE LET x == CHOOSE x \in S : TRUE IN f[x] + SumOver(f, S \ {x})

\* the sum of the counts of a bag
BagTotal(B) == SumOver(B, DOMAIN B)

\* the texts of a list of documents, joined
RECURSIVE JoinTexts(_)
JoinTexts(pages) ==
  IF pages = <<>> THEN EmptyText
  ELSE LET h == Head(pages).text
           t == JoinTexts(Tail(pages))
       IN [len |-> h.len + t.len, textLen |-> h.textLen + t.textLen,
           visLen |-> h.visLen + t.visLen, m |-> h.m (+) t.m,
           phones |-> h.phones \cup t.phones, lastmods |-> h.lastmods (+) t.lastmods,
           firstDef |-> IF h.firstDef # NoMatch THEN h.firstDef
                        ELSE IF t.firstDef # NoMatch THEN h.textLen + 1 + t.firstDef
                        ELSE NoMatch,
           ldBlocks |-> h.ldBlocks + t.ldBlocks, ldQuoted |-> h.ldQuoted \cup t.ldQuoted,
           ldProps |-> h.ldProps \cup t.ldProps]

\* SiteData after construction with nothing fetched
EmptySiteData ==
  [domain |-> <<"example", "com">>, protocol |-> None, homepage |-> Null, llmsTxt |-> Null,
   robotsTxt |-> Null, faqPage |-> Null, sitemapXml |-> Null, rssFeed |-> Null,
   aiTxt |-> Null, redirectedTo |-> NoDomain, parkedReason |-> Null, blogSample |-> <<>>]

\* isHtmlResponse: a 200 body that starts (after trimStart, lowercased, within 200
\* characters) with <!doctype html or <html, or holds <head there
isHtmlResponse(result) ==
  IF result = Null \/ result.status # 200 THEN FALSE
  ELSE \/ Has(result.text, "^<!doctype html")
       \/ Has(result.text, "^<html")
       \/ Has(result.text, "<head[\\s>]@200")

\* getCombinedHtml: homepage text followed by every page of the blog sample
getCombinedHtml(data) ==
  JoinTexts(<<[text |-> IF data.homepage = Null THEN EmptyText ELSE data.homepage.text]>>
            \o data.blogSample)

\* getBlogHtml: the blog sample's texts, joined
getBlogHtml(data) == JoinTexts(data.blogSample)

\* CriterionResult { criterion, score, status } (label, findings and priority are
\* not modelled)
Result(criterion, score, status) ==
  [criterion |-> criterion, score |-> score, status |-> status]

\* A faulty Band, whose pass band begins one point late
BandPassAbove7(score) == IF score > 7 THEN "pass" ELSE IF score >= 4 THEN "partial" ELSE "fail"

\* score >= 7 ? 'pass' : score >= 4 ? 'partial' : 'fail'
Band(score) == IF score >= 7 THEN "pass" ELSE IF score >= 4 THEN "partial" ELSE "fail"

(***************************************************************************)
(* Criterion evaluators (site-crawler.ts)                                  *)
(***************************************************************************)

\* Criterion 1: llms.txt
\* A faulty checkLlmsTxt, which takes a file that could not be fetched for an
\* empty one
checkLlmsTxtPresumed(data) ==
  IF data.llmsTxt # Null /\ (data.llmsTxt.status # 200 \/ isHtmlResponse(data.llmsTxt))
  THEN Result("llms_txt", 0, "fail")
  ELSE Result("llms_txt", 4, "partial")

checkLlmsTxt(data) ==
  LET result == data.llmsTxt IN
  IF result = Null \/ result.status # 200 \/ isHtmlResponse(result)
  THEN Result("llms_txt", 0, "fail")
  ELSE
    LET text == result.text
        s0 == 4
        s1 == IF text.len < 100 THEN s0 ELSE s0 + 2
        s2 == IF Has(text, "#") \/ Has(text, "##") THEN s1 + 2 ELSE s1
        score == IF Has(text, "https?://") THEN s2 + 2 ELSE s2
    IN Result("llms_txt", Min(10, score), IF score >= 7 THEN "pass" ELSE "partial")

schemaTypes ==
  {"organization", "localbusiness", "faqpage", "service", "article", "webpage",
   "website", "breadcrumblist", "howto", "product"}

\* Criterion 2: Schema Markup
checkSchemaMarkup(data) ==
  IF data.homepage = Null THEN Result("schema_markup", 0, "not_found")
  ELSE
    LET html == data.homepage.text IN
    IF html.ldBlocks = 0 THEN Result("schema_markup", 0, "fail")
    ELSE
      LET s0 == 3
          foundTypes == {t \in schemaTypes : LdHas(html, t)}
          s1 == IF Cardinality(foundTypes) > 0
                THEN s0 + Min(4, Cardinality(foundTypes) * 2) ELSE s0
          s2 == IF "organization" \notin foundTypes /\ "localbusiness" \notin foundTypes
                THEN s1 ELSE s1 + 2
          s3 == IF "faqpage" \notin foundTypes THEN s2 ELSE s2 + 1
          blogHtml == getBlogHtml(data)
          blogTypes == {t \in schemaTypes : LdHas(blogHtml, t) /\ t \notin foundTypes}
          s4 == IF Len(data.blogSample) > 0 /\ blogHtml.ldBlocks > 0 /\ Cardinality(blogTypes) > 0
                THEN s3 + Min(2, Cardinality(blogTypes)) ELSE s3
          score == IF /\ Len(data.blogSample) > 0 /\ blogHtml.ldBlocks > 0
                      /\ "faqpage" \notin foundTypes
                      /\ (LdHas(blogHtml, "faqpage") \/ Has(blogHtml, "ld~faqpage"))
                   THEN s4 + 1 ELSE s4
      IN Result("schema_markup", Min(10, score), Band(score))

\* Criterion 3: Q&A Content Format
\* A faulty checkQAFormat, which counts the <h1> of the sampled pages too
checkQAFormatAllH1(data) ==
  IF data.homepage = Null THEN Result("qa_content_format", 0, "not_found")
  ELSE
    LET combinedHtml == getCombinedHtml(data)
        questionHeadings == Count(combinedHtml, "question-heading")
        s1 == IF questionHeadings >= 10 THEN 5
              ELSE IF questionHeadings >= 3 THEN 3
              ELSE IF questionHeadings >= 1 THEN 1 ELSE 0
        hasDirectAnswers == Has(combinedHtml, "<h2-3>..?</h><p>20-500</p>")
        s2 == IF hasDirectAnswers THEN s1 + 3 ELSE s1
        h1Count == Count(combinedHtml, "<h1[ >]")
        score == IF h1Count = 1 THEN s2 + 2 ELSE IF h1Count = 0 THEN s2 ELSE s2 + 1
    IN Result("qa_content_format", Min(10, score), Band(score))

checkQAFormat(data) ==
  IF data.homepage = Null THEN Result("qa_content_format", 0, "not_found")
  ELSE
    LET html == data.homepage.text
        combinedHtml == getCombinedHtml(data)
        questionHeadings == Count(combinedHtml, "question-heading")
        s1 == IF questionHeadings >= 10 THEN 5
              ELSE IF questionHeadings >= 3 THEN 3
              ELSE IF questionHeadings >= 1 THEN 1 ELSE 0
        hasDirectAnswers == Has(combinedHtml, "<h2-3>..?</h><p>20-500</p>")
        s2 == IF hasDirectAnswers THEN s1 + 3 ELSE s1
        h1Count == Count(html, "<h1[ >]")
        score == IF h1Count = 1 THEN s2 + 2 ELSE IF h1Count = 0 THEN s2 ELSE s2 + 1
    IN Result("qa_content_format", Min(10, score), Band(score))

\* Criterion 4: Clean HTML (no HTTPS = capped at 3)
checkCleanHTML(data) ==
  IF data.homepage = Null THEN Result("clean_html", 0, "not_found")
  ELSE
    LET html == data.homepage.text
        httpsAvailable == data.protocol = "https"
        semanticCount == Cardinality({p \in {"<main[ >]", "<article[ >]", "<section[ >]"} : Has(html, p)})
        s1 == Min(3, semanticCount * 1)
        h1Count == Count(html, "<h1[ >]")
        s2 == IF h1Count = 1 THEN s1 + 2 ELSE s1
        s3 == IF html.textLen > 500 THEN s2 + 3 ELSE s2
        hasMetaDesc == Has(html, "<meta name=description>")
        hasTitle == Has(html, "<title>")
        s4 == IF hasMetaDesc /\ hasTitle THEN s3 + 2 ELSE s3
        score == IF ~httpsAvailable THEN Min(s4, 3) ELSE s4
    IN Result("clean_html", Min(10, score), Band(score))

\* Criterion 5: Entity Consistency
checkEntityConsistency(data) ==
  IF data.homepage = Null THEN Result("entity_consistency", 0, "not_found")
  ELSE
    LET html == data.homepage.text
        hasTelLink == Has(html, "href=tel:")
        hasSchemaTelephone == Has(html, "\"telephone\"")
        phones == html.phones
        contextValidatedPhones ==
          IF hasTelLink \/ hasSchemaTelephone THEN phones
          ELSE {p \in phones : p.context}
        uniquePhones == {p.digits : p \in contextValidatedPhones}
        s1 == IF Cardinality(uniquePhones) = 1 THEN 3
              ELSE IF Cardinality(uniquePhones) > 1 THEN 1 ELSE 1
        hasAddress == Has(html, "street-address")
        s2 == IF hasAddress THEN s1 + 2 ELSE s1
        hasOrgSchema == Has(html, "organization|localbusiness")
        s3 == IF hasOrgSchema THEN s2 + 3 ELSE s2
        hasSameAs == Has(html, "sameas|linkedin.com|facebook.com|twitter.com|x.com")
        score == IF hasSameAs THEN s3 + 2 ELSE s3
    IN Result("entity_consistency", Min(10, score), Band(score))

aiCrawlers == {"gptbot", "claudebot", "perplexitybot", "anthropic", "chatgpt"}

\* Criterion 6: robots.txt
checkRobotsTxt(data) ==
  LET result == data.robotsTxt IN
  IF result = Null \/ result.status # 200 \/ isHtmlResponse(result)
  THEN Result("robots_txt", 2, "fail")
  ELSE
    LET text == result.text
        s0 == 3
        mentionedCrawlers == {c \in aiCrawlers : Has(text, c)}
        \* the crawler's own section holds "Disallow: /" and no "Allow: /"
        blocked == {c \in mentionedCrawlers :
                      /\ Has(text, "user-agent: " \o c)
                      /\ ~Has(text, "allow: / @" \o c)
                      /\ Has(text, "disallow: / @" \o c)}
        s1 == IF Cardinality(mentionedCrawlers) > 0
              THEN IF Cardinality(blocked) > 0 THEN s0 + 3 - 2 ELSE s0 + 3 + 2
              ELSE s0
        score == IF Has(text, "sitemap:") THEN s1 + 2 ELSE s1
    IN Result("robots_txt", Min(10, score), Band(score))

\* Criterion 7: FAQ Section
checkFAQSection(data) ==
  LET homepage == data.homepage
      hasHomepageFAQ == homepage # Null /\ Has(homepage.text, "faq|frequently asked")
      s1 == IF hasHomepageFAQ THEN 2 ELSE 0
      faqPage == data.faqPage
      hasFaqPage == faqPage # Null /\ faqPage.status = 200 /\ faqPage.text.len > 500
      s2 == IF hasFaqPage
            THEN IF Has(faqPage.text, "accordion|toggle|collaps|expand") THEN s1 + 3 + 1 ELSE s1 + 3
            ELSE s1
      blogHtml == getBlogHtml(data)
      \* (homepage?.text || '') + (faqPage?.text || '') + blogHtml
      allHtml == JoinTexts(<<[text |-> IF homepage = Null THEN EmptyText ELSE homepage.text],
                             [text |-> IF faqPage = Null THEN EmptyText ELSE faqPage.text],
                             [text |-> blogHtml]>>)
      s3 == IF Has(allHtml, "faqpage") /\ Has(allHtml, "application/ld+json") THEN s2 + 3 ELSE s2
      questionCount == Count(allHtml, "<h2-4>..?</h>")
      score == IF questionCount >= 10 THEN s3 + 1 ELSE s3
  IN Result("faq_section", Min(10, score), Band(score))

\* Criterion 8: Original Data
checkOriginalData(data) ==
  IF data.homepage = Null THEN Result("original_data", 0, "not_found")
  ELSE
    LET html == data.homepage.text
        s1 == IF Has(html, "statistic")
              THEN IF Has(html, "research-context") THEN 3 ELSE 1
              ELSE 0
        caseStudy == Has(html, "case-study|testimonial")
        hasMetricNearby == Has(html, "case-study~metric@200")
        s2 == IF caseStudy THEN IF hasMetricNearby THEN s1 + 3 ELSE s1 + 1 ELSE s1
        combinedText == getCombinedHtml(data)
        s3 == IF Has(combinedText, "written by|expert|licensed") THEN s2 + 2 ELSE s2
        s4 == IF Has(html, "href=/blog|articles|insights|guides|resources") THEN s3 + 2 ELSE s3
        score == IF /\ Len(data.blogSample) > 0 /\ ~caseStudy
                    /\ Has(getBlogHtml(data), "case-study|testimonial")
                 THEN s4 + 1 ELSE s4
    IN Result("original_data", Min(10, score), Band(score))

\* Criterion 9: Internal Linking
checkInternalLinking(data) ==
  IF data.homepage = Null THEN Result("internal_linking", 0, "not_found")
  ELSE
    LET html == data.homepage.text
        internalLinks == Count(html, "<a href=internal>")
        s1 == IF internalLinks >= 20 THEN 3 ELSE IF internalLinks >= 10 THEN 2 ELSE 0
        s2 == IF Has(html, "breadcrumb") THEN s1 + 2 ELSE s1
        s3 == IF Has(html, "<nav[ >]") THEN s2 + 2 ELSE s2
        s4 == IF Has(html, "related|see also|learn more|explore") THEN s3 + 2 ELSE s3
        score == IF Has(html, "<footer[ >]") THEN s4 + 1 ELSE s4
    IN Result("internal_linking", Min(10, score), Band(score))

semanticChecks ==
  {"<main[ >]", "<article[ >]", "<time[ >]", "<nav[ >]", "<header[ >]", "<footer[ >]"}

\* Criterion 10: Semantic HTML
checkSemanticHTML(data) ==
  IF data.homepage = Null THEN Result("semantic_html", 0, "not_found")
  ELSE
    LET combinedHtml == getCombinedHtml(data)
        html == data.homepage.text
        found == Cardinality({p \in semanticChecks : Has(combinedHtml, p)})
        \* Math.min(4, Math.floor(found * 0.7))
        s1 == Min(4, (found * 7) \div 10)
        images == Count(html, "<img>")
        imagesWithAlt == Count(html, "<img alt>")
        \* imagesWithAlt / images >= 0.8
        s2 == IF images > 0 /\ imagesWithAlt * 10 >= 8 * images THEN s1 + 2 ELSE s1
        s3 == IF Has(html, "lang=") THEN s2 + 2 ELSE s2
        score == IF Has(html, "role=|aria-") THEN s3 + 2 ELSE s3
    IN Result("semantic_html", Min(10, score), Band(score))

\* Criterion 11: Content Freshness
checkContentFreshness(data) ==
  IF data.homepage = Null THEN Result("content_freshness", 0, "not_found")
  ELSE
    LET html == data.homepage.text
        hasDatePublished == Has(html, "datePublished|dateCreated")
        hasDateModified == Has(html, "dateModified")
        s1 == IF hasDatePublished \/ hasDateModified THEN 3 ELSE 0
        timeElements == Count(html, "<time[ >]")
        s2 == IF timeElements >= 2 THEN s1 + 3 ELSE IF timeElements = 1 THEN s1 + 1 ELSE s1
        s3 == IF Has(html, "article:published_time|article:modified_time") THEN s2 + 2 ELSE s2
        \* html.includes(String(currentYear)) || html.includes(String(currentYear - 1))
        hasRecentYear == Has(html, "currentYear") \/ Has(html, "currentYear-1")
        score == IF hasRecentYear THEN s3 + 2 ELSE s3
    IN Result("content_freshness", Min(10, score), Band(score))

\* Criterion 12: Sitemap Completeness
checkSitemapCompleteness(data) ==
  LET sitemap == data.sitemapXml IN
  IF sitemap = Null \/ sitemap.status # 200 THEN Result("sitemap_completeness", 0, "fail")
  ELSE
    LET text == sitemap.text
        s0 == 2
        s1 == IF Has(text, "<urlset") \/ Has(text, "<sitemapindex") THEN s0 + 2 ELSE s0
        urlCount == Count(text, "<loc>")
        s2 == IF urlCount >= 50 THEN s1 + 3
              ELSE IF urlCount >= 10 THEN s1 + 2
              ELSE IF urlCount > 0 THEN s1 + 1 ELSE s1
        lastmodMatches == BagTotal(text.lastmods)
        s3 == IF lastmodMatches > 0 THEN s2 + 2 ELSE s2
        score == IF Has(text, "<sitemapindex") THEN s3 + 1 ELSE s3
    IN Result("sitemap_completeness", Min(10, score), Band(score))

\* Criterion 13: RSS Feed
checkRssFeed(data) ==
  LET hasRssLink == data.homepage # Null /\ Has(data.homepage.text, "<link type=rss|atom>")
      s1 == IF hasRssLink THEN 3 ELSE 0
      feed == data.rssFeed
      score ==
        IF feed # Null /\ feed.status = 200
        THEN LET feedText == feed.text
                 isValidFeed == Has(feedText, "<rss") \/ Has(feedText, "<feed") \/ Has(feedText, "<channel")
                 itemCount == Count(feedText, "<item|<entry")
             IN IF isValidFeed
                THEN IF itemCount >= 5 THEN s1 + 3 + 4
                     ELSE IF itemCount > 0 THEN s1 + 3 + 2 ELSE s1 + 3
                ELSE s1
        ELSE s1
  IN Result("rss_feed", Min(10, score), Band(score))

\* Criterion 14: Table & List Extractability
checkTableListExtractability(data) ==
  IF data.homepage = Null THEN Result("table_list_extractability", 0, "not_found")
  ELSE
    LET html == getCombinedHtml(data)
        tables == Count(html, "<table[ >]")
        tablesWithHeaders == Count(html, "<table>..<th")
        s1 == IF tablesWithHeaders >= 1 THEN 3 ELSE IF tables > 0 THEN 1 ELSE 0
        s2 == IF tablesWithHeaders >= 2 THEN s1 + 1 ELSE s1
        s3 == IF Count(html, "<ol[ >]") >= 1 THEN s2 + 2 ELSE s2
        s4 == IF Count(html, "<ul[ >]") >= 1 THEN s3 + 2 ELSE s3
        s5 == IF Count(html, "<li[ >]") >= 10 THEN s4 + 1 ELSE s4
        score == IF Count(html, "<dl[ >]") >= 1 THEN s5 + 1 ELSE s5
    IN Result("table_list_extractability", Min(10, score), Band(score))

\* Criterion 15: Definition Patterns
checkDefinitionPatterns(data) ==
  IF data.homepage = Null THEN Result("definition_patterns", 0, "not_found")
  ELSE
    LET combinedHtml == getCombinedHtml(data)
        patternCount == Count(combinedHtml, "is a|are a|refers to|defined as|known as|means that")
        s1 == IF patternCount >= 3 THEN 5 ELSE IF patternCount >= 1 THEN 3 ELSE 0
        \* definitionPatterns.some(p => p.test(text.slice(0, 2000)))
        earlyDefinitions == combinedHtml.firstDef # NoMatch /\ combinedHtml.firstDef <= 2000
        s2 == IF earlyDefinitions THEN s1 + 2 ELSE s1
        hasDfn == Has(combinedHtml, "<dfn[ >]")
        hasAbbr == Has(combinedHtml, "<abbr[ >]")
        s3 == IF hasDfn \/ hasAbbr THEN s2 + 1 ELSE s2
        score == IF Has(combinedHtml, "<dl[ >]") \/ Has(combinedHtml, "glossary|definitions|terminology")
                 THEN s3 + 2 ELSE s3
    IN Result("definition_patterns", Min(10, score), Band(score))

\* Criterion 16: Direct Answer Density
checkDirectAnswerDensity(data) ==
  IF data.homepage = Null THEN Result("direct_answer_density", 0, "not_found")
  ELSE
    LET html == getCombinedHtml(data)
        qaPairs == Count(html, "<h2-4>..?</h><p>")
        s1 == IF qaPairs >= 3 THEN 6 ELSE IF qaPairs >= 1 THEN 3 ELSE 0
        snippetZoneParagraphs == Count(html, "<p>40-150 words</p>")
        s2 == IF snippetZoneParagraphs >= 3 THEN s1 + 2
              ELSE IF snippetZoneParagraphs >= 1 THEN s1 + 1 ELSE s1
        openerCount == Count(data.homepage.text, "yes|no|the answer is|in short|simply put|to summarize")
        score == IF openerCount >= 2 THEN s2 + 2 ELSE s2
    IN Result("direct_answer_density", Min(10, score), Band(score))

\* Criterion 17: Content Licensing
checkContentLicensing(data) ==
  LET aiTxt == data.aiTxt
      s1 == IF /\ aiTxt # Null /\ aiTxt.status = 200 /\ aiTxt.text.len > 20
               /\ ~isHtmlResponse(aiTxt)
            THEN 4 ELSE 0
      \* data.homepage?.text || ''
      html == IF data.homepage = Null THEN EmptyText ELSE data.homepage.text
      hasPolicyLanguage == Has(html, "content policy|terms of use|permission|licensing")
      s2 == IF hasPolicyLanguage THEN s1 + 2 ELSE s1
      hasLicenseSchema == /\ Has(html, "license|copyrightHolder|copyrightYear")
                          /\ Has(html, "application/ld+json")
      s3 == IF hasLicenseSchema THEN s2 + 2 ELSE s2
      \* the pattern is tested on html + (aiTxt?.text || '')
      tested == JoinTexts(<<[text |-> html],
                            [text |-> IF aiTxt = Null THEN EmptyText ELSE aiTxt.text]>>)
      hasTdmOrCC == Has(tested, "tdm|creative commons|CC BY|creativecommons.org")
      score == IF hasTdmOrCC THEN s3 + 2 ELSE s3
  IN Result("content_licensing", Min(10, score), Band(score))

\* Criterion 18: Author Schema Depth
checkAuthorSchemaDepth(data) ==
  IF data.homepage = Null THEN Result("author_schema_depth", 0, "not_found")
  ELSE
    LET combinedHtml == getCombinedHtml(data)
        html == data.homepage.text
        hasPersonSchema == Has(combinedHtml, "\"@type\": \"Person\"")
        s1 == IF hasPersonSchema THEN 3 ELSE 0
        hasJobTitle == Has(combinedHtml, "jobTitle|knowsAbout|expertise|hasCredential")
        s2 == IF hasJobTitle THEN s1 + 2 ELSE s1
        hasSameAs == Has(combinedHtml, "sameAs") /\ hasPersonSchema
        s3 == IF hasSameAs THEN s2 + 2 ELSE s2
        hasByline == \/ Has(combinedHtml, "written by|authored by|by Xx X")
                     \/ Has(html, "class=author")
                     \/ Has(html, "rel=author")
        s4 == IF hasByline THEN s3 + 2 ELSE s3
        score == IF Has(combinedHtml, "<address[ >]") THEN s4 + 1 ELSE s4
    IN Result("author_schema_depth", Min(10, score), Band(score))

\* Criterion 19: Fact Density
checkFactDensity(data) ==
  IF data.homepage = Null THEN Result("fact_density", 0, "not_found")
  ELSE
    LET text == data.homepage.text
        dataPoints == Count(text, "n%|n$|n USD|n EUR")
        countPhrases == Count(text, "n users|clients|customers")
        totalDataPoints == dataPoints + countPhrases
        s1 == IF totalDataPoints >= 6 THEN 5
              ELSE IF totalDataPoints >= 3 THEN 3
              ELSE IF totalDataPoints >= 1 THEN 1 ELSE 0
        uniqueYears == Count(text, "distinct 19nn|20nn")
        s2 == IF uniqueYears >= 2 THEN s1 + 2 ELSE IF uniqueYears = 1 THEN s1 + 1 ELSE s1
        attributions == Count(text, "according to|source:|study by")
        s3 == IF attributions >= 1 THEN s2 + 2 ELSE s2
        units == Count(text, "n hours|days|km|kg")
        score == IF units >= 2 THEN s3 + 1 ELSE s3
    IN Result("fact_density", Min(10, score), Band(score))

\* A faulty checkCanonicalUrl, which returns its score without the lower clamp
checkCanonicalUrlNoFloor(data) ==
  IF data.homepage = Null THEN Result("canonical_url", 0, "not_found")
  ELSE
    LET html == data.homepage.text
        canonicalMatch == Has(html, "<link rel=\"canonical\" href>")
        s1 == IF canonicalMatch THEN 4 ELSE 0
        s2 == IF canonicalMatch /\ Has(html, "canonical includes domain") THEN s1 + 3 ELSE s1
        s3 == IF canonicalMatch /\ Has(html, "canonical ^https://") THEN s2 + 2 ELSE s2
        allCanonicals == Count(html, "<link rel=canonical>")
        score == IF allCanonicals > 1 THEN s3 - 1
                 ELSE IF allCanonicals = 1 THEN s3 + 1 ELSE s3
    IN Result("canonical_url", Min(10, score), Band(score))

\* Criterion 20: Canonical URL
checkCanonicalUrl(data) ==
  IF data.homepage = Null THEN Result("canonical_url", 0, "not_found")
  ELSE
    LET html == data.homepage.text
        canonicalMatch == Has(html, "<link rel=\"canonical\" href>")
        s1 == IF canonicalMatch THEN 4 ELSE 0
        s2 == IF canonicalMatch /\ Has(html, "canonical includes domain") THEN s1 + 3 ELSE s1
        s3 == IF canonicalMatch /\ Has(html, "canonical ^https://") THEN s2 + 2 ELSE s2
        allCanonicals == Count(html, "<link rel=canonical>")
        score == IF allCanonicals > 1 THEN s3 - 1
                 ELSE IF allCanonicals = 1 THEN s3 + 1 ELSE s3
    IN Result("canonical_url", Max(0, Min(10, score)), Band(score))

\* new Date(dateStr).getTime() of a string that is no date
NaNDate == -1

\* The largest of a bag's counts (Math.max() of no values is -Infinity)
MaxCopies(B) ==
  IF DOMAIN B = {} THEN -1
  ELSE CHOOSE n \in {B[d] : d \in DOMAIN B} : \A d \in DOMAIN B : B[d] <= n

\* A faulty countRecentSitemapDates, for which 80% on one day are uniform too
countRecentSitemapDatesFromFourFifths(sitemapText) ==
  LET lastmods == sitemapText.lastmods
      days == DOMAIN lastmods \ {NaNDate}
      dayCounts == [d \in days |-> lastmods[d]]
      recentDays == {d \in days : d <= 90}
      totalWithDates == SumOver(lastmods, days)
  IN [recentCount |-> SumOver(lastmods, recentDays),
      isUniform |-> totalWithDates >= 5 /\ MaxCopies(dayCounts) * 10 >= 8 * totalWithDates,
      totalWithDates |-> totalWithDates, distinctRecentDays |-> Cardinality(recentDays)]

\* Parse sitemap lastmod dates: a lastmod is the number of days from its
\* date to now, so that it is recent iff it is at most 90
countRecentSitemapDates(sitemapText) ==
  LET lastmods == sitemapText.lastmods
      days == DOMAIN lastmods \ {NaNDate}
      dayCounts == [d \in days |-> lastmods[d]]
      recentDays == {d \in days : d <= 90}
      recentCount == SumOver(lastmods, recentDays)
      totalWithDates == SumOver(lastmods, days)
      maxDayCount == MaxCopies(dayCounts)
      \* totalWithDates >= 5 && maxDayCount / totalWithDates > 0.8
      isUniform == totalWithDates >= 5 /\ maxDayCount * 10 > 8 * totalWithDates
  IN [recentCount |-> recentCount, isUniform |-> isUniform,
      totalWithDates |-> totalWithDates, distinctRecentDays |-> Cardinality(recentDays)]

\* Criterion 21: Content Velocity
checkContentVelocity(data) ==
  LET sitemap == data.sitemapXml IN
  IF sitemap = Null \/ sitemap.status # 200 THEN Result("content_velocity", 0, "fail")
  ELSE
    LET analysis == countRecentSitemapDates(sitemap.text) IN
    IF analysis.totalWithDates = 0 THEN Result("content_velocity", 2, "fail")
    ELSE
      LET effectiveCount == IF analysis.isUniform THEN analysis.distinctRecentDays
                            ELSE analysis.recentCount
          score == IF effectiveCount >= 20 THEN 2 + 8
                   ELSE IF effectiveCount >= 10 THEN 2 + 5
                   ELSE IF effectiveCount >= 5 THEN 2 + 3
                   ELSE IF effectiveCount >= 1 THEN 2 + 1 ELSE 2
      IN Result("content_velocity", Min(10, score), Band(score))

orgProps ==
  {"name", "url", "logo", "contactpoint", "sameas", "address", "telephone",
   "description", "founder", "foundingdate"}
articleProps ==
  {"headline", "datepublished", "datemodified", "author", "image", "description", "publisher"}
coverageTypes == schemaTypes \cup {"person", "event", "offer", "review", "aboutpage"}

\* Criterion 22: Schema Coverage
checkSchemaCoverage(data) ==
  IF data.homepage = Null THEN Result("schema_coverage", 0, "not_found")
  ELSE
    LET combinedHtml == getCombinedHtml(data) IN
    IF combinedHtml.ldBlocks = 0 THEN Result("schema_coverage", 0, "fail")
    ELSE
      LET uniqueProperties == combinedHtml.ldProps
          s1 == IF Cardinality(uniqueProperties) >= 15 THEN 2
                ELSE IF Cardinality(uniqueProperties) >= 5 THEN 2 ELSE 1
          orgPropsFound == {q \in orgProps : LdHas(combinedHtml, q)}
          s2 == IF Cardinality(orgPropsFound) >= 5 THEN s1 + 2
                ELSE IF Cardinality(orgPropsFound) >= 3 THEN s1 + 1 ELSE s1
          articlePropsFound == {q \in articleProps : LdHas(combinedHtml, q)}
          s3 == IF Cardinality(articlePropsFound) >= 4 THEN s2 + 2
                ELSE IF Cardinality(articlePropsFound) >= 2 THEN s2 + 1 ELSE s2
          hasIdLinking == LdHasProp(combinedHtml, "@id")
          s4 == IF hasIdLinking THEN s3 + 2 ELSE s3
          foundTypes == {t \in coverageTypes : LdHas(combinedHtml, t)}
          score == IF Cardinality(foundTypes) >= 3 THEN s4 + 2
                   ELSE IF Cardinality(foundTypes) >= 2 THEN s4 + 1 ELSE s4
      IN Result("schema_coverage", Min(10, score), Band(score))

\* Criterion 23: Speakable Schema
checkSpeakableSchema(data) ==
  IF data.homepage = Null THEN Result("speakable_schema", 0, "not_found")
  ELSE
    LET combinedHtml == getCombinedHtml(data) IN
    IF combinedHtml.ldBlocks = 0 THEN Result("speakable_schema", 0, "fail")
    ELSE
      LET hasSpeakableType == LdHas(combinedHtml, "speakablespecification")
          hasSpeakableProperty == LdHasProp(combinedHtml, "speakable")
          hasSpeakable == hasSpeakableType \/ hasSpeakableProperty
      IN IF ~hasSpeakable THEN Result("speakable_schema", 0, "fail")
         ELSE
           LET hasCssSelector == LdHas(combinedHtml, "cssselector")
               hasXpath == LdHas(combinedHtml, "xpath")
               s1 == IF hasCssSelector \/ hasXpath THEN 4 + 3 ELSE 4
               blogHtml == getBlogHtml(data)
               blogHasSpeakable == \/ LdHas(blogHtml, "speakablespecification")
                                   \/ LdHasProp(blogHtml, "speakable")
                                   \/ Has(blogHtml, "speakablespecification|\"speakable\":")
               score == IF Len(data.blogSample) > 0 /\ blogHasSpeakable THEN s1 + 3 ELSE s1
           IN Result("speakable_schema", Min(10, score), Band(score))

\* Run all 23 criteria checks using pre-fetched site data
auditSiteFromData(data) ==
  << checkLlmsTxt(data), checkSchemaMarkup(data), checkQAFormat(data),
     checkCleanHTML(data), checkEntityConsistency(data), checkRobotsTxt(data),
     checkFAQSection(data), checkOriginalData(data), checkInternalLinking(data),
     checkSemanticHTML(data), checkContentFreshness(data),
     checkSitemapCompleteness(data), checkRssFeed(data),
     checkTableListExtractability(data), checkDefinitionPatterns(data),
     checkDirectAnswerDensity(data), checkContentLicensing(data),
     checkAuthorSchemaDepth(data), checkFactDensity(data), checkCanonicalUrl(data),
     checkContentVelocity(data), checkSchemaCoverage(data), checkSpeakableSchema(data) >>

(***************************************************************************)
(* JavaScript Number arithmetic (scoring.ts computes in IEEE 754 binary64) *)
(*                                                                         *)
(* A natural number is a sequence of limbs, lowest first, in base 2^15.    *)
(* A Number is [m, e], standing for m * 2^e, with m a 53-bit natural       *)
(* number (or zero, the empty sequence).  Every operation computes the     *)
(* exact result and rounds it to the nearest Number, ties to even.         *)
(***************************************************************************)
LimbBits == 15
Base == 2^LimbBits
MantissaBits == 53

RECURSIVE BNorm(_)
BNorm(a) ==
  IF a = <<>> THEN <<>>
  ELSE IF a[Len(a)] = 0 THEN BNorm(SubSeq(a, 1, Len(a) - 1)) ELSE a

RECURSIVE BAddC(_, _, _)
BAddC(a, b, c) ==
  IF a = <<>> /\ b = <<>> THEN (IF c = 0 THEN <<>> ELSE <<c>>)
  ELSE LET x == (IF a = <<>> THEN 0 ELSE Head(a)) + (IF b = <<>> THEN 0 ELSE Head(b)) + c
       IN <<x % Base>> \o BAddC(IF a = <<>> THEN <<>> ELSE Tail(a),
                                IF b = <<>> THEN <<>> ELSE Tail(b), x \div Base)

BAdd(a, b) == BAddC(a, b, 0)

\* a - b - c, for a >= b + c
RECURSIVE BSubC(_, _, _)
BSubC(a, b, c) ==
  IF a = <<>> THEN <<>>
  ELSE LET x == Head(a) - (IF b = <<>> THEN 0 ELSE Head(b)) - c
       IN <<IF x < 0 THEN x + Base ELSE x>>
            \o BSubC(Tail(a), IF b = <<>> THEN <<>> ELSE Tail(b), IF x < 0 THEN 1 ELSE 0)

BSub(a, b) == BNorm(BSubC(a, b, 0))

\* -1, 0, 1 as a < b, a = b, a > b (a and b without leading zero limbs)
RECURSIVE BCmp(_, _)
BCmp(a, b) ==
  IF Len(a) # Len(b) THEN (IF Len(a) < Len(b) THEN -1 ELSE 1)
  ELSE IF a = <<>> THEN 0
  ELSE LET i == Len(a) IN
       IF a[i] # b[i] THEN (IF a[i] < b[i] THEN -1 ELSE 1)
       ELSE BCmp(SubSeq(a, 1, i - 1), SubSeq(b, 1, i - 1))

\* a * k + c, for k and c below Base
RECURSIVE BMulSmall(_, _, _)
BMulSmall(a, k, c) ==
  IF a = <<>> THEN (IF c = 0 THEN <<>> ELSE <<c>>)
  ELSE LET x == Head(a) * k + c
       IN <<x % Base>> \o BMulSmall(Tail(a), k, x \div Base)

RECURSIVE BMulR(_, _)
BMulR(a, b) ==
  IF b = <<>> THEN <<>>
  ELSE BAdd(BMulSmall(a, Head(b), 0), <<0>> \o BMulR(a, Tail(b)))

BMul(a, b) == BNorm(BMulR(a, b))

\* The limbs of floor(a / k), given the remainder r of the limbs above
RECURSIVE BDivSmall(_, _, _)
BDivSmall(a, k, r) ==
  IF a = <<>> THEN <<>>
  ELSE LET i == Len(a)
           x == r * Base + a[i]
       IN BDivSmall(SubSeq(a, 1, i - 1), k, x % k) \o <<x \div k>>

\* a * 2^n
BShl(a, n) ==
  IF a = <<>> THEN <<>>
  ELSE [i \in 1..(n \div LimbBits) |-> 0] \o BMulSmall(a, 2^(n % LimbBits), 0)

\* floor(a / 2^n)
BShr(a, n) ==
  IF Len(a) <= n \div LimbBits THEN <<>>
  ELSE BNorm(BDivSmall(SubSeq(a, n \div LimbBits + 1, Len(a)), 2^(n % LimbBits), 0))

\* The number of bits of a (a without leading zero limbs)
BBitLen(a) ==
  IF a = <<>> THEN 0
  ELSE LimbBits * (Len(a) - 1)
         + (CHOOSE k \in 1..LimbBits : 2^(k - 1) <= a[Len(a)] /\ a[Len(a)] < 2^k)

BBit(a, i) == (a[i \div LimbBits + 1] \div 2^(i % LimbBits)) % 2

\* a * k, for k below Base
BTimes(a, k) == BNorm(BMulSmall(a, k, 0))

\* Long division in base 2^5, of which a limb holds three digits
DigitBits == 5
DigitsPerLimb == LimbBits \div DigitBits

BDigit(a, i) == (a[i \div DigitsPerLimb + 1] \div 2^(DigitBits * (i % DigitsPerLimb))) % 2^DigitBits

\* The largest digit c + x with x < 2^(b+1) and (c + x) * d <= r, found bit by bit
RECURSIVE BQuotientDigit(_, _, _, _)
BQuotientDigit(d, r, c, b) ==
  IF b < 0 THEN c
  ELSE IF BCmp(BTimes(d, c + 2^b), r) <= 0 THEN BQuotientDigit(d, r, c + 2^b, b - 1)
  ELSE BQuotientDigit(d, r, c, b - 1)

\* Quotient and remainder by d of the digits of n from digit i upwards
RECURSIVE BDivFrom(_, _, _)
BDivFrom(n, d, i) ==
  IF i >= DigitsPerLimb * Len(n) THEN [q |-> <<>>, r |-> <<>>]
  ELSE LET up == BDivFrom(n, d, i + 1)
           r2 == BMulSmall(up.r, 2^DigitBits, BDigit(n, i))
           c == BQuotientDigit(d, r2, 0, DigitBits - 1)
       IN [q |-> BMulSmall(up.q, 2^DigitBits, c), r |-> BSub(r2, BTimes(d, c))]

BDivMod(n, d) == BDivFrom(n, d, 0)

BToInt(a) == IF a = <<>> THEN 0 ELSE IF Len(a) = 1 THEN a[1] ELSE a[1] + Base * a[2]

\* The Number 0
Zero == [m |-> <<>>, e |-> 0]

\* The Number nearest to n * 2^e (n > 0), ties to the even mantissa
RoundToNumber(n, e) ==
  LET len == BBitLen(n) IN
  IF len <= MantissaBits
  THEN [m |-> BShl(n, MantissaBits - len), e |-> e - (MantissaBits - len)]
  ELSE LET s == len - MantissaBits
           q == BShr(n, s)
           r == BSub(n, BShl(q, s))
           c == BCmp(r, BShl(<<1>>, s - 1))
           up == c > 0 \/ (c = 0 /\ q[1] % 2 = 1)
           q1 == IF up THEN BAdd(q, <<1>>) ELSE q
       IN IF BBitLen(q1) > MantissaBits
          THEN [m |-> BShr(q1, 1), e |-> e + s + 1]
          ELSE [m |-> q1, e |-> e + s]

\* An integer below 2^15 as a Number
Num(n) == IF n = 0 THEN Zero ELSE RoundToNumber(<<n>>, 0)

\* a + b
NumAdd(a, b) ==
  IF a.m = <<>> THEN b
  ELSE IF b.m = <<>> THEN a
  ELSE LET e == Min(a.e, b.e)
       IN RoundToNumber(BAdd(BShl(a.m, a.e - e), BShl(b.m, b.e - e)), e)

\* a * b
NumMul(a, b) ==
  IF a.m = <<>> \/ b.m = <<>> THEN Zero
  ELSE RoundToNumber(BMul(a.m, b.m), a.e + b.e)

\* a / b (b # 0): the quotient of the mantissas to 56 bits or more, and a
\* lowest bit that tells whether a remainder is left
NumDiv(a, b) ==
  IF a.m = <<>> THEN Zero
  ELSE LET d == BDivMod(BShl(a.m, MantissaBits + 3), b.m)
           inexact == IF d.r = <<>> THEN 0 ELSE 1
       IN RoundToNumber(BAddC(d.q, d.q, inexact), a.e - b.e - (MantissaBits + 3) - 1)

\* Math.round(x) for x >= 0: floor(x + 1/2), computed exactly
MathRound(x) ==
  IF x.m = <<>> THEN 0
  ELSE IF x.e >= 0 THEN BToInt(BShl(x.m, x.e))
  ELSE BToInt(BShr(BAdd(x.m, BShl(<<1>>, (0 - x.e) - 1)), 0 - x.e))

\* A decimal literal n/d of the source, e.g. 0.07 as Literal(7, 100)
Literal(n, d) == NumDiv(Num(n), Num(d))

(***************************************************************************)
(* Overall score (scoring.ts)                                              *)
(***************************************************************************)

\* WEIGHTS, in hundredths
WEIGHTS ==
  [llms_txt |-> 10, schema_markup |-> 15, qa_content_format |-> 15, clean_html |-> 10,
   entity_consistency |-> 10, robots_txt |-> 5, faq_section |-> 10, original_data |-> 10,
   internal_linking |-> 10, semantic_html |-> 5, content_freshness |-> 7,
   sitemap_completeness |-> 5, rss_feed |-> 3, table_list_extractability |-> 7,
   definition_patterns |-> 4, direct_answer_density |-> 7, content_licensing |-> 4,
   author_schema_depth |-> 4, fact_density |-> 5, canonical_url |-> 4,
   content_velocity |-> 3, schema_coverage |-> 3, speakable_schema |-> 3]

\* WEIGHTS[c.criterion] ?? 0.10, in hundredths
WeightHundredths(criterion) ==
  IF criterion \in DOMAIN WEIGHTS THEN WEIGHTS[criterion] ELSE 10

\* The Numbers that the weights' literals denote
WeightNumbers == [h \in {WEIGHTS[c] : c \in DOMAIN WEIGHTS} \cup {10} |-> Literal(h, 100)]

\* (c.score / 10) * weight * 100, for every score and weight
Contribution ==
  [s \in 0..10, h \in DOMAIN WeightNumbers |->
     NumMul(NumMul(NumDiv(Num(s), Num(10)), WeightNumbers[h]), Num(100))]

\* A faulty loop, which leaves the default weight out of totalWeight
RECURSIVE AccumulateTableWeights(_, _, _)
AccumulateTableWeights(criteria, weightedSum, totalWeight) ==
  IF criteria = <<>> THEN [weightedSum |-> weightedSum, totalWeight |-> totalWeight]
  ELSE LET c == Head(criteria)
           weight == WeightHundredths(c.criterion)
       IN AccumulateTableWeights(
            Tail(criteria),
            NumAdd(weightedSum, Contribution[c.score, weight]),
            IF c.criterion \in DOMAIN WEIGHTS THEN NumAdd(totalWeight, WeightNumbers[weight])
            ELSE totalWeight)

\* The loop of calculateOverallScore over the criteria left
RECURSIVE Accumulate(_, _, _)
Accumulate(criteria, weightedSum, totalWeight) ==
  IF criteria = <<>> THEN [weightedSum |-> weightedSum, totalWeight |-> totalWeight]
  ELSE LET c == Head(criteria)
           weight == WeightHundredths(c.criterion)
       IN Accumulate(Tail(criteria),
                     NumAdd(weightedSum, Contribution[c.score, weight]),
                     NumAdd(totalWeight, WeightNumbers[weight]))

\* A faulty calculateOverallScore, which does not divide by totalWeight
calculateOverallScoreUndivided(criteria) ==
  LET sums == Accumulate(criteria, Zero, Zero) IN
  IF sums.totalWeight = Zero THEN 0 ELSE MathRound(sums.weightedSum)

calculateOverallScore(criteria) ==
  LET sums == Accumulate(criteria, Zero, Zero) IN
  IF sums.totalWeight = Zero THEN 0
  ELSE MathRound(NumDiv(sums.weightedSum, sums.totalWeight))

(***************************************************************************)
(* State                                                                   *)
(***************************************************************************)
VARIABLES
  data,          \* the SiteData snapshot the audit works on (Null until acquired)
  results,       \* the criterion results (<<>> before scoring)
  overallScore,  \* the aggregate of results (NoScore before it is computed)
  pc,            \* where audit() stands
  domain,        \* audit's argument, as its dot-separated labels
  site,          \* the web site that answers for the domain
  options,       \* audit's options { noHeadless, noMultiPage }
  local,         \* the local variables of prefetchSiteData
  tasks,         \* the promises of the running concurrent phase
  requested,     \* the bag of URLs handed to fetch so far
  faults,        \* the number of requests that met a network error by chance
  headless,      \* what fetchWithHeadless gave for the homepage and the FAQ page
  renderedWithHeadless,  \* audit's flag of that name
  error          \* the reason audit() rejected with (NoError while it has not)

\* overallScore before calculateOverallScore has returned
NoScore == -1

pipeline ==
  <<pc, domain, site, options, local, tasks, requested, faults, headless,
    renderedWithHeadless, error>>

vars == <<data, results, overallScore, pipeline>>

\* no audit() is running: the evaluators or the aggregator are called directly
NoAudit ==
  /\ pc = "none"
  /\ domain = <<>>
  /\ site = "none"
  /\ options = [noHeadless |-> FALSE, noMultiPage |-> FALSE]
  /\ local = Null
  /\ tasks = <<>>
  /\ requested = EmptyBag
  /\ faults = 0
  /\ headless = Null
  /\ renderedWithHeadless = FALSE
  /\ error = Null

(***************************************************************************)
(* Snapshots handed to the evaluators.  Each family varies the             *)
(* observations one evaluator makes, over the values on both sides of      *)
(* each of its thresholds.                                                 *)
(***************************************************************************)

\* The most pages a blog sample holds in the enumerated snapshots
MaxBlogPages == 1

\* The bag that holds f[x] copies of every x
BagOf(f) == [x \in {y \in DOMAIN f : f[y] > 0} |-> f[x]]

\* Texts of the given lengths with any subset of the markers bools and any of
\* the given numbers of matches of each pattern of counted
Texts(lens, bools, counted, levels) ==
  { [EmptyText EXCEPT !.len = l, !.textLen = l, !.visLen = l,
                      !.m = SetToBag(S) (+) BagOf(f)] :
      l \in lens, S \in SUBSET bools, f \in [counted -> levels] }

Seqs(S, n) == UNION {[1..k -> S] : k \in 0..n}

\* A reachable https site whose homepage carries nothing the evaluators look for
Site ==
  [EmptySiteData EXCEPT !.protocol = "https", !.homepage = Doc(200, Text(1200, {"<title>"}))]

WithHome(T) == {[Site EXCEPT !.homepage = Doc(200, t)] : t \in T}

BlogPage(t) == [Doc(200, t) EXCEPT !.category = "blog"]

WithHomeAndBlog(T, B) ==
  {[Site EXCEPT !.homepage = Doc(200, t), !.blogSample = b] :
     t \in T, b \in Seqs({BlogPage(x) : x \in B}, MaxBlogPages)}

\* A catch-all route's answer to a plain-text URL: HTTP 200 with an HTML page
CatchAllPages ==
  {Doc(200, Text(90, {"^<!doctype html"})),
   Doc(200, Text(90, {"^<html", "#", "https?://", "sitemap:", "gptbot"})),
   Doc(200, Text(300, {"<head[\\s>]@200", "tdm|creative commons|CC BY|creativecommons.org"}))}

MissingDocs == {Null, Doc(404, Text(150, {"#", "sitemap:"})), Doc(500, EmptyText)}

LlmsTxtInputs ==
  {[Site EXCEPT !.llmsTxt = d] :
     d \in MissingDocs \cup CatchAllPages
           \cup {Doc(200, t) : t \in Texts({99, 100}, {"#", "https?://"}, {}, {})}}

\* robots.txt bodies: a rule of a crawler's section stands in a section that
\* names the crawler
RobotsTxtBodies ==
  {t \in Texts({60}, {"sitemap:", "gptbot", "user-agent: gptbot",
                      "disallow: / @gptbot", "allow: / @gptbot"}, {}, {}) :
     /\ Has(t, "user-agent: gptbot") => Has(t, "gptbot")
     /\ Has(t, "disallow: / @gptbot") => Has(t, "user-agent: gptbot")
     /\ Has(t, "allow: / @gptbot") => Has(t, "user-agent: gptbot")}

RobotsTxtInputs ==
  {[Site EXCEPT !.robotsTxt = d] :
     d \in MissingDocs \cup CatchAllPages \cup {Doc(200, t) : t \in RobotsTxtBodies}}

LicensingInputs ==
  {[Site EXCEPT !.homepage = h, !.aiTxt = d] :
     h \in {Null} \cup {Doc(200, t) : t \in Texts({1200}, {"content policy|terms of use|permission|licensing",
                                                     "license|copyrightHolder|copyrightYear",
                                                     "application/ld+json",
                                                     "tdm|creative commons|CC BY|creativecommons.org"}, {}, {})},
     d \in MissingDocs \cup CatchAllPages
           \cup {Doc(200, t) : t \in Texts({20, 21}, {"tdm|creative commons|CC BY|creativecommons.org"}, {}, {})}}

\* The patterns that a JSON-LD block matches because of a string it holds
LdImplied(quoted, props) ==
  {"application/ld+json"}
    \cup (IF "faqpage" \in quoted THEN {"faqpage"} ELSE {})
    \cup (IF "person" \in quoted THEN {"\"@type\": \"Person\""} ELSE {})
    \cup (IF "sameas" \in props
          THEN {"sameAs", "sameas|linkedin.com|facebook.com|twitter.com|x.com"} ELSE {})
    \cup (IF "telephone" \in props THEN {"\"telephone\""} ELSE {})
    \cup (IF "datepublished" \in props THEN {"datePublished|dateCreated"} ELSE {})
    \cup (IF "speakablespecification" \in quoted \/ "speakable" \in props
          THEN {"speakablespecification|\"speakable\":"} ELSE {})

\* A text with JSON-LD blocks that hold the given quoted strings and properties
LdText(len, blocks, quoted, props) ==
  [Text(len, IF blocks > 0 THEN LdImplied(quoted, props) ELSE {}) EXCEPT
     !.ldBlocks = blocks, !.ldQuoted = quoted, !.ldProps = props]

SchemaMarkupInputs ==
  WithHomeAndBlog(
    {LdText(1200, 0, {}, {})}
      \cup {LdText(1200, 1, q, {"@type"}) : q \in SUBSET {"organization", "faqpage", "article"}},
    {LdText(800, 0, {}, {})}
      \cup {LdText(800, 1, q, {"@type"}) : q \in SUBSET {"faqpage", "howto", "product"}})

QAFormatInputs ==
  WithHomeAndBlog(
    Texts({1200}, {"<h2-3>..?</h><p>20-500</p>"}, {"question-heading"}, {0, 1, 3, 10})
      \cup Texts({1200}, {}, {"<h1[ >]"}, {1, 2}),
    Texts({800}, {}, {"question-heading"}, {0, 7}))

CleanHTMLInputs ==
  {[d EXCEPT !.protocol = pr] :
     pr \in {"https", "http"},
     d \in WithHome(Texts({500, 501}, {"<main[ >]", "<article[ >]", "<section[ >]",
                                       "<meta name=description>", "<title>"},
                          {"<h1[ >]"}, {0, 1}))}

PhoneNumbers ==
  {[digits |-> "555-0100", context |-> TRUE], [digits |-> "555-0100", context |-> FALSE],
   [digits |-> "555-0199", context |-> FALSE]}

EntityInputs ==
  {[d EXCEPT !.homepage.text.phones = ph] :
     ph \in SUBSET PhoneNumbers,
     d \in WithHome(Texts({1200}, {"href=tel:", "street-address", "organization|localbusiness",
                                   "sameas|linkedin.com|facebook.com|twitter.com|x.com"}, {}, {}))}

FaqPages ==
  {Null, Doc(404, Text(900, {"faqpage", "application/ld+json"})),
   Doc(200, Text(500, {})), Doc(200, Text(501, {})),
   Doc(200, Text(900, {"accordion|toggle|collaps|expand"})),
   Doc(200, [Text(900, {"faqpage", "application/ld+json"}) EXCEPT
               !.m = @ (+) BagOf([x \in {"<h2-4>..?</h>"} |-> 10])])}

FAQInputs ==
  {[Site EXCEPT !.homepage = h, !.faqPage = f] :
     f \in FaqPages,
     h \in {Null} \cup {Doc(200, t) : t \in Texts({1200}, {"faq|frequently asked", "faqpage",
                                                     "application/ld+json"},
                                                 {"<h2-4>..?</h>"}, {0, 9})}}

OriginalDataTexts ==
  {t \in Texts({1200}, {"statistic", "research-context", "case-study|testimonial",
                        "case-study~metric@200", "written by|expert|licensed",
                        "href=/blog|articles|insights|guides|resources"}, {}, {}) :
     Has(t, "case-study~metric@200") => Has(t, "case-study|testimonial")}

OriginalDataInputs ==
  WithHomeAndBlog(OriginalDataTexts,
                  Texts({800}, {"case-study|testimonial", "written by|expert|licensed"}, {}, {}))

InternalLinkingInputs ==
  WithHome(Texts({1200}, {"breadcrumb", "<nav[ >]", "related|see also|learn more|explore",
                          "<footer[ >]"}, {"<a href=internal>"}, {9, 10, 20}))

\* The first n elements of a sequence, as a set
FirstOf(seq, n) == {seq[i] : i \in 1..Min(n, Len(seq))}

SemanticHTMLInputs ==
  WithHomeAndBlog(
    {[t EXCEPT !.m = @ (+) BagOf(img)] :
       t \in {Text(1200, FirstOf(<<"<main[ >]", "<article[ >]", "<nav[ >]", "<header[ >]",
                                   "<footer[ >]">>, n) \cup S) :
                n \in 0..5, S \in SUBSET {"lang=", "role=|aria-"}},
       img \in {[x \in {"<img>", "<img alt>"} |-> 0],
                [x \in {"<img>", "<img alt>"} |-> IF x = "<img>" THEN 5 ELSE 3],
                [x \in {"<img>", "<img alt>"} |-> IF x = "<img>" THEN 5 ELSE 4]}},
    Texts({800}, {"<time[ >]"}, {}, {}))

FreshnessInputs ==
  WithHome(Texts({1200}, {"datePublished|dateCreated", "dateModified",
                          "article:published_time|article:modified_time",
                          "currentYear", "currentYear-1"}, {"<time[ >]"}, {0, 1, 2}))

\* lastmod dates of a sitemap, as bags of days-ago: none, unparseable ones,
\* n different recent days, one day shared by most URLs
LastmodBags ==
  {EmptyBag, BagOf([d \in {NaNDate} |-> 3]), BagOf([d \in {NaNDate, 90} |-> 1]),
   BagOf([d \in {91} |-> 1]), BagOf([d \in {90, 100} |-> IF d = 90 THEN 4 ELSE 1]),
   BagOf([d \in {90, 100} |-> IF d = 90 THEN 5 ELSE 1]), BagOf([d \in {100} |-> 6]),
   BagOf([d \in {3, 100} |-> IF d = 3 THEN 1 ELSE 9]),
   BagOf([d \in {90, 100} |-> IF d = 90 THEN 8 ELSE 2])}
    \cup {BagOf([d \in 1..n |-> 1]) : n \in {4, 5, 9, 10, 19, 20}}
    \cup {BagOf([d \in 1..n |-> 2]) : n \in {5, 10}}

SitemapInputs ==
  {[Site EXCEPT !.sitemapXml = d] :
     d \in MissingDocs \cup {CHOOSE c \in CatchAllPages : TRUE}
           \cup {Doc(200, [t EXCEPT !.lastmods = lm]) :
                   t \in Texts({4000}, {"<urlset", "<sitemapindex"}, {"<loc>"}, {0, 1, 10, 50}),
                   lm \in {EmptyBag, BagOf([d \in {NaNDate} |-> 3])}}
           \cup {Doc(200, [Text(4000, {"<urlset"}) EXCEPT !.lastmods = lm,
                             !.m = @ (+) BagOf([x \in {"<loc>"} |-> BagTotal(lm)])]) :
                   lm \in LastmodBags}}

RssInputs ==
  {[Site EXCEPT !.homepage = h, !.rssFeed = f] :
     h \in {Null, Doc(200, Text(1200, {})), Doc(200, Text(1200, {"<link type=rss|atom>"}))},
     f \in MissingDocs \cup {Doc(200, Text(90, {"^<!doctype html"}))}
           \cup {Doc(200, t) : t \in Texts({2000}, {"<rss"}, {"<item|<entry"}, {0, 1, 5})}}

TableListInputs ==
  WithHomeAndBlog(
    {t \in Texts({1200}, {"<ol[ >]", "<ul[ >]", "<dl[ >]"}, {"<table[ >]", "<table>..<th"}, {0, 1, 2}) :
       Count(t, "<table>..<th") <= Count(t, "<table[ >]")}
      \cup Texts({1200}, {"<ul[ >]"}, {"<li[ >]"}, {9, 10}),
    Texts({800}, {}, {"<table[ >]", "<table>..<th", "<li[ >]"}, {1}))

\* Texts in which a definition pattern matches n times, the first match ending
\* at offset first
DefinitionTexts(len, bools) ==
  {[t EXCEPT !.firstDef = first] :
     t \in Texts({len}, bools, {"is a|are a|refers to|defined as|known as|means that"}, {0, 1, 3}),
     first \in {NoMatch, 100, 700, 2000, 2001}} 

DefinitionInputs ==
  {d \in WithHomeAndBlog(
           DefinitionTexts(1200, {"<dfn[ >]", "<abbr[ >]", "<dl[ >]"})
             \cup DefinitionTexts(2500, {"glossary|definitions|terminology"}),
           DefinitionTexts(800, {})) :
     \A pg \in {d.homepage} \cup {d.blogSample[i] : i \in DOMAIN d.blogSample} :
        /\ (pg.text.firstDef = NoMatch)
             <=> (Count(pg.text, "is a|are a|refers to|defined as|known as|means that") = 0)
        /\ pg.text.firstDef <= pg.text.textLen}

DirectAnswerInputs ==
  WithHomeAndBlog(
    Texts({1200}, {}, {"<h2-4>..?</h><p>", "<p>40-150 words</p>"}, {0, 1, 3})
      \cup Texts({1200}, {}, {"yes|no|the answer is|in short|simply put|to summarize"}, {1, 2}),
    Texts({800}, {}, {"<h2-4>..?</h><p>"}, {2}))

AuthorInputs ==
  WithHomeAndBlog(
    Texts({1200}, {"\"@type\": \"Person\"", "jobTitle|knowsAbout|expertise|hasCredential",
                   "sameAs", "written by|authored by|by Xx X", "class=author", "<address[ >]"},
          {}, {}),
    Texts({800}, {"\"@type\": \"Person\"", "rel=author"}, {}, {}))

FactDensityInputs ==
  WithHome(Texts({1200}, {}, {"n%|n$|n USD|n EUR", "distinct 19nn|20nn"}, {0, 1, 2, 3})
             \cup Texts({1200}, {}, {"n%|n$|n USD|n EUR", "n users|clients|customers"}, {0, 3})
             \cup Texts({1200}, {}, {"according to|source:|study by", "n hours|days|km|kg"}, {0, 1, 2}))

\* Homepages by their <link rel="canonical"> tags: a tag that the first pattern
\* matches is one of those that the second pattern counts
CanonicalInputs ==
  WithHome(
    {t \in Texts({1200}, {"<link rel=\"canonical\" href>", "canonical includes domain",
                          "canonical ^https://"}, {"<link rel=canonical>"}, {0, 1, 2}) :
       /\ Has(t, "<link rel=\"canonical\" href>") => Count(t, "<link rel=canonical>") >= 1
       /\ Has(t, "canonical includes domain") => Has(t, "<link rel=\"canonical\" href>")
       /\ Has(t, "canonical ^https://") => Has(t, "<link rel=\"canonical\" href>")})

coverageProps ==
  <<"@context", "@type", "name", "url", "logo", "description", "sameas", "headline",
    "author", "image", "datepublished", "publisher", "@id", "telephone", "address", "founder">>

SchemaCoverageInputs ==
  WithHomeAndBlog(
    {LdText(1200, 0, {}, {})}
      \cup {LdText(1200, 1, FirstOf(<<"organization", "website", "person">>, nt),
                   FirstOf(coverageProps, np)) :
              nt \in 0..3, np \in {2, 4, 5, 7, 9, 12, 14, 15, 16}},
    {LdText(800, 1, {"article"}, {"@type", "@id"})})

SpeakableInputs ==
  WithHomeAndBlog(
    {LdText(1200, 0, {}, {})}
      \cup {LdText(1200, 1, q, pr) :
              q \in SUBSET {"speakablespecification", "cssselector", "xpath"},
              pr \in {{"@type"}, {"@type", "speakable"}}},
    {LdText(800, 0, {}, {}), LdText(800, 1, {"speakablespecification"}, {"@type", "speakable"})})

\* A snapshot whose homepage could not be fetched, with the other documents
\* absent or present
NoHomepageInputs ==
  {[Site EXCEPT !.homepage = Null, !.llmsTxt = d1, !.faqPage = d2, !.sitemapXml = d3] :
     d1 \in {Null, Doc(200, Text(150, {"#"}))},
     d2 \in {Null, Doc(200, Text(900, {}))},
     d3 \in {Null, Doc(200, Text(4000, {"<urlset"}))}}
    \cup {EmptySiteData}

\* the documents of a snapshot other than its homepage and its page sample
SecondaryDocs == {"llmsTxt", "robotsTxt", "faqPage", "sitemapXml", "rssFeed", "aiTxt"}

\* the body of an error page that happens to hold what the evaluators look for
ErrorBody ==
  Text(900, {"#", "https?://", "sitemap:", "gptbot", "<urlset", "<rss", "faqpage",
             "application/ld+json", "accordion|toggle|collaps|expand",
             "tdm|creative commons|CC BY|creativecommons.org"})

\* A snapshot one of whose secondary documents was answered with an error status
NonOkInputs ==
  {[Site EXCEPT ![f] = Doc(st, ErrorBody)] : f \in SecondaryDocs, st \in {404, 503}}

EvalInputs ==
  LlmsTxtInputs \cup RobotsTxtInputs \cup LicensingInputs \cup SchemaMarkupInputs
    \cup QAFormatInputs \cup CleanHTMLInputs \cup EntityInputs \cup FAQInputs
    \cup OriginalDataInputs \cup InternalLinkingInputs \cup SemanticHTMLInputs
    \cup FreshnessInputs \cup SitemapInputs \cup RssInputs \cup TableListInputs
    \cup DefinitionInputs \cup DirectAnswerInputs \cup AuthorInputs \cup FactDensityInputs
    \cup CanonicalInputs \cup SchemaCoverageInputs \cup SpeakableInputs \cup NoHomepageInputs
    \cup NonOkInputs

(***************************************************************************)
(* Scoring a given snapshot: auditSiteFromData applied to a snapshot       *)
(***************************************************************************)
InitEval ==
  /\ NoAudit
  /\ data \in EvalInputs
  /\ results = <<>>
  /\ overallScore = NoScore

\* auditSiteFromData(data)
Evaluate ==
  /\ results = <<>>
  /\ results' = auditSiteFromData(data)
  /\ UNCHANGED <<data, overallScore, pipeline>>

NextEval == Evaluate

SpecEval == InitEval /\ [][NextEval]_vars

(***************************************************************************)
(* Properties of the evaluators                                            *)
(***************************************************************************)

\* C5: for every snapshot, whatever documents it holds or lacks, each of the
\* 23 evaluators returns an integer score between 0 and 10
ScoreWithinZeroToTen ==
  results # <<>> =>
    /\ Len(results) = 23
    /\ \A i \in 1..23 : results[i].score \in 0..10

\* C5 at work: a homepage with two canonical tags of which none gives a
\* canonical URL, whose raw score of -1 is returned as 0
ScoreClampedAtZero ==
  /\ results # <<>>
  /\ data.homepage # Null
  /\ Count(data.homepage.text, "<link rel=canonical>") > 1
  /\ ~Has(data.homepage.text, "<link rel=\"canonical\" href>")
  /\ results[20].score = 0

\* C6: the status of every result follows from its score by the fixed bands
\* (pass from 7, partial from 4 to 6, fail below 4), except not_found, which
\* is returned only for a snapshot that lacks the homepage the evaluator needs
StatusFollowsBands ==
  results # <<>> =>
    \A i \in 1..Len(results) :
      LET r == results[i] IN
        \/ r.status = "not_found" /\ data.homepage = Null
        \/ r.status = "pass" /\ r.score >= 7
        \/ r.status = "partial" /\ r.score >= 4 /\ r.score <= 6
        \/ r.status = "fail" /\ r.score < 4

\* C6 at work: the results of one snapshot show all four statuses (it has no
\* homepage, yet documents that pass and that score in the partial band)
StatusOfEveryBand ==
  /\ results # <<>>
  /\ \A st \in {"not_found", "pass", "partial", "fail"} :
       \E i \in 1..Len(results) : results[i].status = st

\* An HTML page served with HTTP 200 in place of a plain-text resource
IsCatchAll(doc) ==
  /\ doc # Null
  /\ doc.status = 200
  /\ \E p \in {"^<!doctype html", "^<html", "<head[\\s>]@200"} : Has(doc.text, p)

\* C10: an llms.txt, robots.txt or ai.txt that is an HTML page served with
\* HTTP 200 gets the score from its evaluator that the same snapshot gets
\* without that resource
CatchAllScoresAsNotFound ==
  results # <<>> =>
    /\ IsCatchAll(data.llmsTxt) =>
         results[1].score = checkLlmsTxt([data EXCEPT !.llmsTxt = Null]).score
    /\ IsCatchAll(data.robotsTxt) =>
         results[6].score = checkRobotsTxt([data EXCEPT !.robotsTxt = Null]).score
    /\ IsCatchAll(data.aiTxt) =>
         results[17].score = checkContentLicensing([data EXCEPT !.aiTxt = Null]).score

\* the scores of a list of results
Scores(rs) == [i \in 1..Len(rs) |-> rs[i].score]

\* C11: a secondary document that was answered with a status other than 200
\* counts as absent: the 23 scores of the snapshot are those of the same
\* snapshot without that document
NonOkScoresAsAbsent ==
  results # <<>> =>
    \A f \in SecondaryDocs :
      data[f] # Null /\ data[f].status # 200 =>
        Scores(results) = Scores(auditSiteFromData([data EXCEPT ![f] = Null]))

\* the documents of the snapshot that the i-th evaluator of auditSiteFromData
\* reads first: the 16 that return at once without a homepage, and the 7 that
\* are about a secondary document
Documents ==
  [i \in 1..23 |->
     CASE i = 1 -> {"llmsTxt"}
       [] i = 6 -> {"robotsTxt"}
       [] i = 7 -> {"homepage", "faqPage", "blogSample"}
       [] i \in {12, 21} -> {"sitemapXml"}
       [] i = 13 -> {"homepage", "rssFeed"}
       [] i = 17 -> {"homepage", "aiTxt"}
       [] OTHER -> {"homepage"}]

\* the document is null (the page sample: empty)
Unfetched(snapshot, f) ==
  IF f = "blogSample" THEN snapshot.blogSample = <<>> ELSE snapshot[f] = Null

\* the scores of the snapshot of which nothing could be fetched
NothingFetchedScores == Scores(auditSiteFromData(EmptySiteData))

VelocityBand(units) ==
  IF units >= 20 THEN 8 ELSE IF units >= 10 THEN 5 ELSE IF units >= 5 THEN 3
  ELSE IF units >= 1 THEN 1 ELSE 0

\* C16: content velocity counts the distinct recent lastmod days when at least
\* 5 entries are dated and more than 80% of them have one day, and the recent
\* entries in every other case; the count selects the band
VelocityCountsDaysWhenUniform ==
  results # <<>> /\ data.sitemapXml # Null /\ data.sitemapXml.status = 200 =>
    LET lastmods == data.sitemapXml.text.lastmods
        dated == DOMAIN lastmods \ {NaNDate}
        entries == SumOver(lastmods, dated)
        recent == {d \in dated : d <= 90}
        onOneDay == \E d \in dated : 5 * lastmods[d] > 4 * entries
        units == IF entries >= 5 /\ onOneDay THEN Cardinality(recent)
                 ELSE SumOver(lastmods, recent)
    IN entries > 0 => results[21].score = 2 + VelocityBand(units)

\* C16 at work: of 6 dated entries 5 have one recent day, and the sitemap is
\* scored for its 1 recent day, not for its 5 recent entries
UniformSitemapScoredByDays ==
  /\ results # <<>>
  /\ data.sitemapXml # Null /\ data.sitemapXml.status = 200
  /\ data.sitemapXml.text.lastmods = BagOf([d \in {90, 100} |-> IF d = 90 THEN 5 ELSE 1])
  /\ results[21].score = 3

(***************************************************************************)
(* Aggregating a given list of results: calculateOverallScore applied to   *)
(* lists of criterion results, and to the results of a scored snapshot     *)
(***************************************************************************)

\* The longest list of arbitrary results
MaxCriteria == 2

\* The longest list of results that all have one score and one weight
MaxUniform == 5

\* Criterion identifiers of the weight table, and one that it does not hold
ScoredCriteria == {"rss_feed", "robots_txt", "llms_txt", "custom_check"}

\* Snapshots scored as audit() scores them
AuditSnapshots ==
  {EmptySiteData, Site} \cup {d \in LlmsTxtInputs \cup RssInputs : d.homepage # Null}

InitScore ==
  /\ NoAudit
  /\ data = EmptySiteData
  /\ results = <<>>
  /\ overallScore = NoScore

\* The caller puts one more result on the list
AddResult ==
  \E c \in ScoredCriteria, s \in 0..10 :
    /\ overallScore = NoScore
    /\ \/ Len(results) < MaxCriteria
       \/ /\ Len(results) < MaxUniform
          /\ \A i \in 1..Len(results) :
               /\ results[i].score = s
               /\ WeightHundredths(results[i].criterion) = WeightHundredths(c)
    /\ results' = Append(results, Result(c, s, Band(s)))
    /\ UNCHANGED <<data, overallScore, pipeline>>

\* calculateOverallScore(criteria)
Aggregate ==
  /\ overallScore = NoScore
  /\ overallScore' = calculateOverallScore(results)
  /\ UNCHANGED <<data, results, pipeline>>

\* audit(), phase 4: score the snapshot and aggregate its results
ScoreSnapshot ==
  \E d \in AuditSnapshots :
    /\ results = <<>>
    /\ overallScore = NoScore
    /\ data' = d
    /\ results' = auditSiteFromData(d)
    /\ overallScore' = calculateOverallScore(results')
    /\ UNCHANGED pipeline

NextScore == AddResult \/ Aggregate \/ ScoreSnapshot

SpecScore == InitScore /\ [][NextScore]_vars

(***************************************************************************)
(* Properties of the overall score                                         *)
(***************************************************************************)
RECURSIVE WeightedTotal(_)
WeightedTotal(criteria) ==
  IF criteria = <<>> THEN 0
  ELSE Head(criteria).score * WeightHundredths(Head(criteria).criterion) * 10
         + WeightedTotal(Tail(criteria))

RECURSIVE WeightTotal(_)
WeightTotal(criteria) ==
  IF criteria = <<>> THEN 0
  ELSE WeightHundredths(Head(criteria).criterion) + WeightTotal(Tail(criteria))

\* round(n / d), halves upwards, for n >= 0 and d > 0
RoundedQuotient(n, d) == (2 * n + d) \div (2 * d)

\* C7: the overall score is 0 for the empty list and otherwise the rounded
\* weighted mean round(sum((score_i / 10) * w_i * 100) / sum(w_i)), with the
\* table's weight or 0.10 for an identifier the table lacks; a single result
\* with an unknown identifier and score s gives s * 10
OverallScoreIsRoundedMean ==
  overallScore # NoScore =>
    /\ results = <<>> => overallScore = 0
    /\ results # <<>> =>
         overallScore = RoundedQuotient(WeightedTotal(results), WeightTotal(results))
    /\ Len(results) = 1 /\ results[1].criterion \notin DOMAIN WEIGHTS =>
         overallScore = results[1].score * 10

\* C8: N >= 1 results that all have the score S and one weight aggregate to
\* S * 10, whatever N is
UniformListScoresTenfold ==
  /\ overallScore # NoScore
  /\ results # <<>>
  /\ \A i \in 1..Len(results) :
       /\ results[i].score = results[1].score
       /\ WeightHundredths(results[i].criterion) = WeightHundredths(results[1].criterion)
  => overallScore = results[1].score * 10

\* C8 at work: five results of score 7 and weight 0.03 aggregate to 70
UniformListOfFive ==
  /\ Len(results) = 5
  /\ \A i \in 1..5 : results[i].score = 7 /\ results[i].criterion = "rss_feed"
  /\ overallScore = 70

Url(protocol, host, path) == [protocol |-> protocol, host |-> host, port |-> 0, path |-> path]

\* the labels that are written with capitals somewhere, and their lowercase
LowerCaseOf == ("WWW" :> "www") @@ ("Example" :> "example") @@ ("Other" :> "other")

\* String.prototype.toLowerCase, label by label
toLowerCase(host) ==
  [i \in 1..Len(host) |-> IF host[i] \in DOMAIN LowerCaseOf THEN LowerCaseOf[host[i]] ELSE host[i]]

\* host.replace(/^www\./, '')
stripWww(host) == IF Len(host) > 1 /\ Head(host) = "www" THEN Tail(host) ELSE host

\* extractDomain: protocol, path and port are cut off, then a leading www., then
\* the rest is lowercased
extractDomain(url) == toLowerCase(stripWww(url.host))

twoPartTlds ==
  {<<"co", "uk">>, <<"com", "au">>, <<"co", "jp">>, <<"com", "br">>, <<"co", "nz">>,
   <<"co", "in">>}

\* extractBrandName: everything before the TLD
extractBrandName(d) ==
  LET n == Len(d)
      lastTwo == SubSeq(d, Max(1, n - 1), n)
  IN IF lastTwo \in twoPartTlds /\ n > 2 THEN SubSeq(d, 1, n - 2)
     ELSE IF n > 1 THEN SubSeq(d, 1, n - 1)
     ELSE d

\* the test that detectCrossDomainRedirect and detectJsRedirect share: the other
\* host is the audited one, its www. form, or one of the same brand
sameSite(other, originalDomain) ==
  LET cleanOriginal == toLowerCase(stripWww(originalDomain))
  IN \/ other = cleanOriginal
     \/ other = <<"www">> \o cleanOriginal
     \/ extractBrandName(other) = extractBrandName(cleanOriginal)

\* detectCrossDomainRedirect: the host the homepage request ended on, when it
\* is another brand's
detectCrossDomainRedirect(originalDomain, homepage) ==
  IF homepage.finalUrl = Null THEN NoDomain
  ELSE LET finalDomain == extractDomain(homepage.finalUrl)
       IN IF sameSite(finalDomain, originalDomain) THEN NoDomain ELSE finalDomain

(***************************************************************************)
(* What the classifiers read in a page.  Besides the observations of the   *)
(* evaluators a fetched page carries                                       *)
(*   js            the first window.location = "http(s)://.." assignment:  *)
(*                 [url, at], at being the offset at which the match ends  *)
(*   parkRedirect  the first window.location = "/path" assignment: [path, at]*)
(*   parkService   the parking services named in the page: a set of        *)
(*                 [name, at]                                              *)
(*   parkText      the parking phrases in the page: a set of [phrase, at]  *)
(* (Null = no match).  text.slice(0, n) keeps the matches that end within  *)
(* the first n characters.                                                 *)
(***************************************************************************)
NoSignals == [js |-> Null, parkRedirect |-> Null, parkService |-> {}, parkText |-> {}]

\* text.slice(0, n), as the classifiers see it
slice(text, n) ==
  [js |-> IF text.js # Null /\ text.js.at <= n THEN text.js ELSE Null,
   parkRedirect |-> IF text.parkRedirect # Null /\ text.parkRedirect.at <= n
                    THEN text.parkRedirect ELSE Null,
   parkService |-> {x \in text.parkService : x.at <= n},
   parkText |-> {x \in text.parkText : x.at <= n}]

\* detectJsRedirect: the host of a window.location assignment in the snippet,
\* when it is another brand's
detectJsRedirect(bodySnippet, originalDomain) ==
  IF bodySnippet.js = Null THEN NoDomain
  ELSE LET jsDomain == extractDomain(bodySnippet.js.url)
       IN IF sameSite(jsDomain, originalDomain) THEN NoDomain ELSE jsDomain

(***************************************************************************)
(* Parked domains (parked-domain.ts)                                       *)
(***************************************************************************)
PARKING_PATHS == {"/lander", "/parking", "/park", "/sedoparking"}

PARKING_SERVICE_DOMAINS ==
  <<"sedoparking.com", "parkingcrew.net", "bodis.com", "dsparking.com", "hugedomains.com",
    "afternic.com", "dan.com", "undeveloped.com", "domainmarket.com", "sav.com",
    "domaincontrol.com", "above.com", "domainlore.com", "domainnamesales.com",
    "brandbucket.com", "squadhelp.com", "godaddy.com/domainsearch">>

PARKING_TEXT_PATTERNS ==
  <<"buy this domain", "domain is for sale", "this domain may be for sale",
    "domain for sale", "this domain name is available", "parked by",
    "this page is parked", "domain has expired", "this domain has been registered",
    "make an offer on this domain", "get this domain", "acquire this domain">>

\* path.toLowerCase().replace(/[?#].*/, '') on the redirect paths that are not
\* in that form already
NormalPathOf == ("/Lander?from=home" :> "/lander") @@ ("/Parking#top" :> "/parking")

normalPath(path) == IF path \in DOMAIN NormalPathOf THEN NormalPathOf[path] ELSE path

\* the first element of the list that is in the set, or None
RECURSIVE FirstIn(_, _)
FirstIn(list, S) ==
  IF list = <<>> THEN None
  ELSE IF Head(list) \in S THEN Head(list)
  ELSE FirstIn(Tail(list), S)

detectParkingRedirect(bodySnippet) ==
  IF bodySnippet.parkRedirect = Null THEN Null
  ELSE IF normalPath(bodySnippet.parkRedirect.path) \in PARKING_PATHS
       THEN [signal |-> "js-redirect to", value |-> bodySnippet.parkRedirect.path]
       ELSE Null

detectParkingService(bodySnippet) ==
  LET service == FirstIn(PARKING_SERVICE_DOMAINS, {x.name : x \in bodySnippet.parkService})
  IN IF service = None THEN Null ELSE [signal |-> "parking service", value |-> service]

detectParkingText(bodySnippet) ==
  LET phrase == FirstIn(PARKING_TEXT_PATTERNS, {x.phrase : x \in bodySnippet.parkText})
  IN IF phrase = None THEN Null ELSE [signal |-> "parking text", value |-> phrase]

\* A faulty detectParkedDomain, which looks for the text before the service
detectParkedDomainTextFirst(bodySnippet) ==
  LET parkingRedirect == detectParkingRedirect(bodySnippet)
      parkingService == detectParkingService(bodySnippet)
      parkingText == detectParkingText(bodySnippet)
  IN IF parkingRedirect # Null THEN [isParked |-> TRUE, reason |-> parkingRedirect]
     ELSE IF parkingText # Null THEN [isParked |-> TRUE, reason |-> parkingText]
     ELSE IF parkingService # Null THEN [isParked |-> TRUE, reason |-> parkingService]
     ELSE [isParked |-> FALSE, reason |-> Null]

\* detectParkedDomain: { isParked, reason } from the first signal that is there
detectParkedDomain(bodySnippet) ==
  LET parkingRedirect == detectParkingRedirect(bodySnippet)
      parkingService == detectParkingService(bodySnippet)
      parkingText == detectParkingText(bodySnippet)
  IN IF parkingRedirect # Null THEN [isParked |-> TRUE, reason |-> parkingRedirect]
     ELSE IF parkingService # Null THEN [isParked |-> TRUE, reason |-> parkingService]
     ELSE IF parkingText # Null THEN [isParked |-> TRUE, reason |-> parkingText]
     ELSE [isParked |-> FALSE, reason |-> Null]

(***************************************************************************)
(* SPA shells (headless-fetch.ts) and visible text (audit.ts)              *)
(***************************************************************************)
\* getTextLength: the length of the text without scripts, styles and tags,
\* whitespace collapsed and trimmed
getTextLength(html) == html.visLen

\* A regular expression of headless-fetch.ts is the set of the features of a
\* page that make it match; pattern.test(html)
test(pattern, html) == \E feature \in pattern : Has(html, feature)

\* a <div> with the id that is empty or self-closing
EmptyDiv(ids) == {"<div id=\"" \o id \o "\"></div>" : id \in ids}

SPA_INDICATORS ==
  <<EmptyDiv({"root", "app", "__next", "__nuxt", "__vue"}),
    {"__NEXT_DATA__"}, {"__NUXT__"},
    {"src=\"/static/js/main.[hex].js\""}, {"src=\"/assets/index-[hex].js\""},
    {"data-reactroot"}, {"ng-version"}, {"<noscript>requires javascript</noscript>"}>>

\* isSpaShell: less than 500 characters of visible text and one of the
\* SPA_INDICATORS
isSpaShell(html) ==
  html.visLen < 500 /\ \E i \in DOMAIN SPA_INDICATORS : test(SPA_INDICATORS[i], html)

\* A faulty list, with the Vite bundle before the React patterns
frameworkPatternsViteFirst ==
  <<[pattern |-> {"__NEXT_DATA__"}, framework |-> "next"],
    [pattern |-> {"__NUXT__"}, framework |-> "nuxt"],
    [pattern |-> EmptyDiv({"__vue"}) \cup {"<div id=\"__vue\">"}, framework |-> "vue"],
    [pattern |-> {"ng-version"}, framework |-> "angular"],
    [pattern |-> {"src=\"/assets/index-[hex].js\""}, framework |-> "vite"],
    [pattern |-> {"data-reactroot"}, framework |-> "react"],
    [pattern |-> EmptyDiv({"root", "app"}), framework |-> "react"],
    [pattern |-> {"src=\"/static/js/main.[hex].js\""}, framework |-> "react"]>>

\* classifyRendering, lines 67 to 76; the pattern of vue asks for the opening
\* tag only
frameworkPatterns ==
  <<[pattern |-> {"__NEXT_DATA__"}, framework |-> "next"],
    [pattern |-> {"__NUXT__"}, framework |-> "nuxt"],
    [pattern |-> EmptyDiv({"__vue"}) \cup {"<div id=\"__vue\">"}, framework |-> "vue"],
    [pattern |-> {"ng-version"}, framework |-> "angular"],
    [pattern |-> {"data-reactroot"}, framework |-> "react"],
    [pattern |-> EmptyDiv({"root", "app"}), framework |-> "react"],
    [pattern |-> {"src=\"/static/js/main.[hex].js\""}, framework |-> "react"],
    [pattern |-> {"src=\"/assets/index-[hex].js\""}, framework |-> "vite"]>>

\* classifyRendering: the method and the framework of the first pattern that
\* matches
classifyRendering(html) ==
  IF ~isSpaShell(html) THEN [method |-> "server", framework |-> None]
  ELSE LET matching == {i \in DOMAIN frameworkPatterns : test(frameworkPatterns[i].pattern, html)}
       IN IF matching # {}
          THEN [method |-> "client-spa",
                framework |-> frameworkPatterns[CHOOSE i \in matching :
                                                  \A j \in matching : i <= j].framework]
          ELSE [method |-> "client-spa", framework |-> None]

(***************************************************************************)
(* Requests.  What a request meets is either a network error (the fetch or *)
(* the reading of its body throws: refused connection, timeout, abort) or  *)
(* a response { status, text, url }.  An async function settles its        *)
(* promise: fulfilled with a value or rejected.                            *)
(***************************************************************************)
NetworkError == [kind |-> "error"]
Response(status, text, url) == [kind |-> "response", status |-> status, text |-> text, url |-> url]

Pending == [state |-> "pending", value |-> Null]
Fulfilled(v) == [state |-> "fulfilled", value |-> v]
Rejected == [state |-> "rejected", value |-> Null]

\* the cap on a body that is kept
MaxBody == 500000

\* text.slice(0, 500000): a longer body loses its end (what is observed of a
\* long body is observed in its first 500000 characters)
truncate(text) == IF text.len <= MaxBody THEN text ELSE [text EXCEPT !.len = MaxBody]

\* fetchText with a throwing fetch let through
fetchTextUncaught(outcome) ==
  IF outcome.kind = "error" THEN Rejected
  ELSE Fulfilled([text |-> truncate(outcome.text), status |-> outcome.status,
                  finalUrl |-> outcome.url, category |-> None])

\* fetchText: the document of any response, null for a network error
fetchText(outcome) ==
  IF outcome.kind = "error" THEN Fulfilled(Null)
  ELSE Fulfilled([text |-> truncate(outcome.text), status |-> outcome.status,
                  finalUrl |-> outcome.url, category |-> None])

\* fetchPage: the document of a 200 response of at least 200 characters, null
\* otherwise
fetchPage(outcome) ==
  IF outcome.kind = "error" THEN Fulfilled(Null)
  ELSE IF outcome.status # 200 THEN Fulfilled(Null)
  ELSE IF outcome.text.len < 200 THEN Fulfilled(Null)
  ELSE Fulfilled([text |-> truncate(outcome.text), status |-> outcome.status,
                  finalUrl |-> outcome.url, category |-> None])

(***************************************************************************)
(* Paths and sitemaps.  The program tests a path with patterns of the form *)
(* /\/(?:word|word|..)\b/: some segment begins with one of the words and   *)
(* the word ends there.  WordPrefixes gives, for the segments that are     *)
(* more than one word, their prefixes that end at a word boundary.         *)
(* A sitemap text carries                                                  *)
(*   sitemaps  the <loc> of its <sitemap> blocks, in document order        *)
(*   urls      its <url> blocks that have a <loc>, in document order:      *)
(*             [loc, lastmod], loc a URL or Null when new URL(loc) throws, *)
(*             lastmod a day number or 0 when the block has none           *)
(* and a homepage text                                                     *)
(*   rssHref   the href of its first <link type="application/rss+xml">     *)
(*   navHrefs  the href="..." values inside its <nav> blocks               *)
(* an href being a URL, or [path |-> ..] when it starts with '/'.          *)
(***************************************************************************)
WordPrefixesOf ==
  ("post-1" :> {"post", "post-1"}) @@ ("post-2" :> {"post", "post-2"})
    @@ ("post-sitemap.xml" :> {"post", "post-sitemap", "post-sitemap.xml"})
    @@ ("page-sitemap.xml" :> {"page", "page-sitemap", "page-sitemap.xml"})
    @@ ("about-us" :> {"about", "about-us"})
    @@ ("case-studies" :> {"case", "case-studies"})
    @@ ("help-center" :> {"help", "help-center"})
    @@ ("wp-content" :> {"wp", "wp-", "wp-content"})

WordPrefixes(segment) ==
  IF segment \in DOMAIN WordPrefixesOf THEN WordPrefixesOf[segment] ELSE {segment}

\* /\/(?:words)\b/i.test(path), the path being lowercased
pathHasWord(path, words) ==
  \E i \in 1..Len(path) : WordPrefixes(toLowerCase(path)[i]) \cap words # {}

BLOG_PATH_PATTERNS ==
  {"blog", "article", "articles", "insight", "insights", "guide", "guides", "resource",
   "resources", "news", "post", "posts", "learn", "help", "howto", "how-to", "tutorial",
   "tutorials", "case-stud", "whitepaper", "whitepapers"}

EXCLUDE_PATH_PATTERNS ==
  {"tag", "category", "author", "page", "feed", "wp-content", "wp-admin", "wp-json",
   "cart", "checkout", "login", "search", "api", "static", "assets", "_next"}

\* the element of a one-element set; {e(x) : x \in {v}} computes v once for
\* all its uses in e, as an assignment to a const does
Only(S) == CHOOSE x \in S : TRUE

\* Array.prototype.sort with the comparator of extractBlogUrlsFromSitemap: newest
\* lastmod first, blocks without one last, equal ones in their order (stable)
RECURSIVE sortByLastmod(_)
sortByLastmod(candidates) ==
  IF candidates = <<>> THEN <<>>
  ELSE LET c == Head(candidates)
           Before(x) == x.lastmod > c.lastmod
           NotBefore(x) == ~Before(x)
       IN Only({SelectSeq(rest, Before) \o <<c>> \o SelectSeq(rest, NotBefore) :
                  rest \in {sortByLastmod(Tail(candidates))}})

\* A faulty extractBlogUrlsFromSitemap, which does not cut the list at the limit
extractBlogUrlsFromSitemapUnlimited(sitemapText, originalDomain, limit) ==
  LET cleanDomain == toLowerCase(stripWww(originalDomain))
      IsCandidate(block) ==
        /\ block.loc # Null
        /\ extractDomain(block.loc) = cleanDomain
        /\ block.loc.path # <<>>
        /\ ~pathHasWord(block.loc.path, EXCLUDE_PATH_PATTERNS)
        /\ \/ pathHasWord(block.loc.path, BLOG_PATH_PATTERNS)
           \/ Len(block.loc.path) >= 2
  IN Only({[i \in 1..Len(sorted) |-> sorted[i].loc] :
             sorted \in {sortByLastmod(SelectSeq(sitemapText.urls, IsCandidate))}})

\* extractBlogUrlsFromSitemap(sitemapText, domain, limit)
extractBlogUrlsFromSitemap(sitemapText, originalDomain, limit) ==
  LET cleanDomain == toLowerCase(stripWww(originalDomain))
      IsCandidate(block) ==
        /\ block.loc # Null
        /\ extractDomain(block.loc) = cleanDomain
        /\ block.loc.path # <<>>
        /\ ~pathHasWord(block.loc.path, EXCLUDE_PATH_PATTERNS)
        /\ \/ pathHasWord(block.loc.path, BLOG_PATH_PATTERNS)
           \/ Len(block.loc.path) >= 2
  IN Only({[i \in 1..Min(limit, Len(sorted)) |-> sorted[i].loc] :
             sorted \in {sortByLastmod(SelectSeq(sitemapText.urls, IsCandidate))}})

\* /post|blog|article/i.test(u): the words stand somewhere in the URL
SubSitemapWords == {"post", "blog", "article"}

\* extractSubSitemapUrl: of a sitemap index, the first sub-sitemap named after
\* posts, or else the first one; Null for anything else
extractSubSitemapUrl(sitemapText) ==
  IF ~Has(sitemapText, "<sitemapindex") \/ sitemapText.sitemaps = <<>> THEN Null
  ELSE LET IsPreferred(u) == pathHasWord(u.path, SubSitemapWords)
           preferred == SelectSeq(sitemapText.sitemaps, IsPreferred)
       IN IF preferred # <<>> THEN Head(preferred) ELSE Head(sitemapText.sitemaps)

(***************************************************************************)
(* Page discovery (multi-page-fetcher.ts)                                  *)
(***************************************************************************)
PAGE_VARIANTS ==
  <<[category |-> "about", variants |-> <<"about", "about-us", "company", "who-we-are">>],
    [category |-> "pricing", variants |-> <<"pricing", "plans", "packages">>],
    [category |-> "services",
     variants |-> <<"services", "features", "solutions", "products", "what-we-do">>],
    [category |-> "contact", variants |-> <<"contact", "contact-us", "get-in-touch">>],
    [category |-> "team",
     variants |-> <<"team", "our-team", "authors", "people", "leadership">>],
    [category |-> "resources", variants |-> <<"resources", "resource-center", "library">>],
    [category |-> "docs",
     variants |-> <<"docs", "documentation", "help", "help-center", "support">>],
    [category |-> "cases",
     variants |-> <<"case-studies", "customers", "success-stories", "testimonials">>]>>

\* the file names that end in .js .css .png .jpg .svg .ico .pdf .xml or .txt
ResourceFiles == {"logo.png", "app.js", "sitemap.xml", "llms.txt", "brochure.pdf"}

UtilityPrefixes ==
  {"api", "wp-", "static", "assets", "_next", "auth", "login", "signup", "cart", "checkout"}

\* the elements of a list in the order of their first occurrence
Distinct(list) ==
  Only({LET IsFirst(i) == \A j \in 1..(i - 1) : seen[j] # seen[i]
            firsts == SelectSeq([i \in 1..Len(seen) |-> i], IsFirst)
        IN [k \in 1..Len(firsts) |-> seen[firsts[k]]] : seen \in {list}})

\* extractNavLinks: the internal page paths linked from the <nav> blocks
extractNavLinks(html, originalDomain) ==
  LET cleanDomain == toLowerCase(stripWww(originalDomain))
      IsInternal(href) ==
        /\ href # Null
        /\ "host" \in DOMAIN href => extractDomain(href) = cleanDomain
      IsPage(href) ==
        /\ href.path # <<>>
        /\ href.path[Len(href.path)] \notin ResourceFiles
        /\ WordPrefixes(toLowerCase(href.path)[1]) \cap UtilityPrefixes = {}
      internal == SelectSeq(SelectSeq(html.navHrefs, IsInternal), IsPage)
  IN Distinct([i \in 1..Len(internal) |-> internal[i].path])

skipPatterns ==
  {"blog", "article", "articles", "post", "posts", "news", "tag", "category", "author",
   "feed", "faq", "about", "pricing", "contact", "team", "resource", "resources", "doc",
   "docs", "documentation", "help", "support", "case-studies", "customers",
   "testimonials", "sitemap", "wp-", "api", "login", "cart", "checkout", "search"}

\* Math.round(i * (n - 1) / (limit - 1)), for limit > 1
spacedIndex(i, n, limit) == (2 * i * (n - 1) + (limit - 1)) \div (2 * (limit - 1))

\* extractContentPagesFromSitemap(sitemapText, domain, limit): the eligible
\* pages, or limit of them evenly spaced (for limit = 1 the index is
\* Math.round(0 / 0) = NaN, and candidates[NaN] is undefined)
extractContentPagesFromSitemap(sitemapText, originalDomain, limit) ==
  LET cleanDomain == toLowerCase(stripWww(originalDomain))
      IsCandidate(block) ==
        /\ block.loc # Null
        /\ extractDomain(block.loc) = cleanDomain
        /\ block.loc.path # <<>>
        /\ ~pathHasWord(block.loc.path, skipPatterns)
        /\ Len(block.loc.path) <= 3
      eligible == SelectSeq(sitemapText.urls, IsCandidate)
      candidates == [i \in 1..Len(eligible) |-> eligible[i].loc]
  IN IF Len(candidates) <= limit THEN candidates
     ELSE IF limit = 1 THEN <<Null>>
     ELSE [i \in 1..limit |-> candidates[spacedIndex(i - 1, Len(candidates), limit) + 1]]

\* A faulty Map.prototype.set, which adds an entry for a key it has
mapSetAppending(entries, url, category) ==
  Append(entries, [url |-> url, category |-> category])

\* Map.prototype.set on the list of [url, category] entries: a new key goes
\* to the end, a known key keeps its place and takes the new value
mapSet(entries, url, category) ==
  IF \E i \in 1..Len(entries) : entries[i].url = url
  THEN [i \in 1..Len(entries) |->
          IF entries[i].url = url THEN [url |-> url, category |-> category] ELSE entries[i]]
  ELSE Append(entries, [url |-> url, category |-> category])

\* A faulty existingUrls, which leaves out the page sample
existingUrlsHomepageOnly(siteData) == {Url(siteData.protocol, siteData.domain, <<>>)}

\* the URLs fetchMultiPageData holds to be fetched already: the homepage's
\* (with and without its slash) and the final URLs of the page sample
existingUrls(siteData) ==
  {Url(siteData.protocol, siteData.domain, <<>>)}
    \cup {siteData.blogSample[i].finalUrl : i \in 1..Len(siteData.blogSample)}

\* the path that stands for a category: the first nav link that is one of its
\* variants, or else the first variant
RECURSIVE variantPages(_, _, _, _)
variantPages(siteData, navPaths, k, entries) ==
  IF k > Len(PAGE_VARIANTS) THEN entries
  ELSE LET variants == {PAGE_VARIANTS[k].variants[i] : i \in 1..Len(PAGE_VARIANTS[k].variants)}
           IsVariant(path) == toLowerCase(path)[1] \in variants
           navMatch == SelectSeq(navPaths, IsVariant)
           path == IF navMatch # <<>> THEN Head(navMatch)
                   ELSE <<PAGE_VARIANTS[k].variants[1]>>
           url == Url(siteData.protocol, siteData.domain, path)
       IN Only({variantPages(siteData, navPaths, k + 1, next) :
                  next \in {IF url \in existingUrls(siteData) THEN entries
                            ELSE mapSet(entries, url, PAGE_VARIANTS[k].category)}})

RECURSIVE contentPages(_, _, _, _)
contentPages(siteData, contentUrls, k, entries) ==
  IF k > Len(contentUrls) THEN entries
  ELSE Only({contentPages(siteData, contentUrls, k + 1, next) :
               next \in {IF contentUrls[k] \in existingUrls(siteData) THEN entries
                         ELSE mapSet(entries, contentUrls[k], "content")}})

\* fetchMultiPageData, lines 166 to 214: the candidate pages and their categories
urlsToFetch(siteData) ==
  Only({LET variantEntries == variantPages(siteData, navPaths, 1, <<>>)
        IN IF siteData.sitemapXml # Null /\ siteData.sitemapXml.status = 200
           THEN Only({contentPages(siteData, contentUrls, 1, variantEntries) :
                        contentUrls \in {extractContentPagesFromSitemap(
                                           siteData.sitemapXml.text, siteData.domain, 6)}})
           ELSE variantEntries :
        navPaths \in {extractNavLinks(siteData.homepage.text, siteData.domain)}})

(***************************************************************************)
(* The web.  A site answers a request by its path, over the protocols it   *)
(* serves; a path it does not know gets its 404 page.                      *)
(***************************************************************************)
\* a fetched page: vis characters of visible text in len characters of HTML,
\* every pattern of S matching once
Page(len, vis, S) ==
  [Text(len, S) EXCEPT !.textLen = vis, !.visLen = vis] @@ NoSignals
    @@ [rssHref |-> Null, navHrefs |-> <<>>, sitemaps |-> <<>>, urls |-> <<>>]

Example == <<"example", "com">>

NotFoundPage == Page(180, 40, {"<title>"})
Served(status, text) == [status |-> status, text |-> text, url |-> Null]

PlainHome ==
  [Page(30000, 4000, {"<title>", "<link type=rss|atom>", "<nav[ >]", "<h1", "faq|frequently asked"})
     EXCEPT !.rssHref = [path |-> <<"blog", "feed.xml">>],
            !.navHrefs = <<[path |-> <<"about-us">>], [path |-> <<"logo.png">>],
                           Url("https", <<"www", "example", "com">>, <<"pricing">>),
                           Url("https", <<"other", "com">>, <<"team">>), [path |-> <<>>]>>]

PlainSitemap ==
  [Page(900, 0, {"<urlset", "<loc>"})
     EXCEPT !.lastmods = SetToBag({20}),
            !.urls = <<[loc |-> Url("https", Example, <<"platform">>), lastmod |-> 0],
                       [loc |-> Url("https", Example, <<"blog", "post-1">>), lastmod |-> 20],
                       [loc |-> Url("https", Example, <<"tag", "news">>), lastmod |-> 30],
                       [loc |-> Url("https", Example, <<"platform", "overview">>), lastmod |-> 5],
                       [loc |-> Url("https", Example, <<"platform">>), lastmod |-> 0],
                       [loc |-> Null, lastmod |-> 0]>>]

PlainPages ==
  (<<>> :> Served(200, PlainHome))
    @@ (<<"llms.txt">> :> Served(200, Page(300, 300, {"#", "https?://"})))
    @@ (<<"robots.txt">> :> Served(200, Page(120, 120, {"user-agent: *", "sitemap:"})))
    @@ (<<"frequently-asked-questions">> :>
          Served(200, Page(6000, 2000, {"accordion|toggle|collaps|expand"})))
    @@ (<<"sitemap.xml">> :> Served(200, PlainSitemap))
    @@ (<<"blog", "feed.xml">> :> Served(200, Page(5000, 0, {"<rss", "<item|<entry"})))
    @@ (<<"blog", "post-1">> :> Served(200, Page(9000, 3000, {"<title>", "<h1"})))
    @@ (<<"about-us">> :> Served(200, Page(2500, 900, {"<title>"})))
    @@ (<<"pricing">> :> Served(200, Page(150, 60, {"<title>"})))
    @@ (<<"platform">> :> Served(200, Page(800, 300, {"<title>", "<table[ >]"})))
    @@ (<<"platform", "overview">> :> Served(200, Page(3000, 1000, {"<title>"})))

\* a client-rendered site: a thin shell on every page it knows
SpaShell == Page(700, 120, {"<title>", "<div id=\"root\"></div>"})

SpaPages ==
  (<<>> :> Served(200, SpaShell))
    @@ (<<"faq">> :> Served(200, SpaShell))
    @@ (<<"feed">> :> Served(200, SpaShell))

\* a client-rendered site with its questions under /help and nothing at /faq
SpaHelpPages ==
  (<<>> :> Served(200, SpaShell))
    @@ (<<"help">> :> Served(200, SpaShell))

\* a lapsed domain that now forwards to another brand's site
HijackedPages ==
  <<>> :> [status |-> 200, text |-> Page(5000, 1500, {"<title>"}),
           url |-> Url("https", <<"www", "other", "com">>, <<>>)]

\* a page that sends the browser on by script, early or late in its text
JsRedirectPage(at) ==
  [Page(12000, 200, {"<title>"})
     EXCEPT !.js = [url |-> Url("https", <<"Other", "com">>, <<"landing">>), at |-> at]]

\* a page that sends the browser to its own www. host
OwnRedirectPage ==
  [Page(1000, 700, {"<title>"})
     EXCEPT !.js = [url |-> Url("https", <<"www", "example", "com">>, <<"home">>), at |-> 200]]

ParkedTextPage ==
  [Page(2500, 300, {"<title>"})
     EXCEPT !.parkText = {[phrase |-> "domain for sale", at |-> 400],
                          [phrase |-> "buy this domain", at |-> 9000]}]

ParkedServicePage ==
  [Page(2500, 300, {"<title>"})
     EXCEPT !.parkRedirect = [path |-> "/home", at |-> 100],
            !.parkService = {[name |-> "bodis.com", at |-> 600]},
            !.parkText = {[phrase |-> "parked by", at |-> 700]}]

ParkedRedirectPage ==
  [Page(400, 0, {})
     EXCEPT !.parkRedirect = [path |-> "/Lander?from=home", at |-> 150]]

\* a sitemap index, longer than a kept body, and its sub-sitemaps
IndexSitemap ==
  [Page(600000, 0, {"<sitemapindex", "<loc>"})
     EXCEPT !.sitemaps = <<Url("http", Example, <<"page-sitemap.xml">>),
                           Url("http", Example, <<"post-sitemap.xml">>)>>]

PostSitemap ==
  [Page(700, 0, {"<urlset", "<loc>"})
     EXCEPT !.urls = <<[loc |-> Url("http", Example, <<"guides", "intro">>), lastmod |-> 0],
                       [loc |-> Url("http", Example, <<"news", "launch">>), lastmod |-> 12]>>]

IndexPages ==
  (<<>> :> Served(200, Page(8000, 2500, {"<title>"})))
    @@ (<<"faq">> :> Served(200, Page(400, 200, {"<title>"})))
    @@ (<<"sitemap.xml">> :> Served(200, IndexSitemap))
    @@ (<<"post-sitemap.xml">> :> Served(200, PostSitemap))
    @@ (<<"guides", "intro">> :> Served(200, Page(4000, 1200, {"<title>"})))
    @@ (<<"news", "launch">> :> Served(301, Page(4000, 1200, {"<title>"})))
    @@ (<<"rss.xml">> :> Served(200, Page(3000, 0, {"<channel"})))

\* a site whose homepage declares its feed at /feed
FeedPages ==
  (<<>> :> Served(200, [Page(5000, 1500, {"<title>"}) EXCEPT !.rssHref = [path |-> <<"feed">>]]))
    @@ (<<"feed">> :> Served(200, Page(4000, 0, {"<rss", "<item|<entry"})))

\* a site that makes every stage of the acquisition ask for all it may ask
\* for: HTTP only, no FAQ page, a declared feed that is missing, a sitemap
\* index that also lists pages, and a sub-sitemap of twelve posts
Slugs == <<"one", "two", "three", "four", "five", "six", "seven", "eight", "nine", "ten",
           "eleven", "twelve">>

LargeIndex ==
  [Page(2000, 0, {"<sitemapindex", "<urlset", "<loc>"})
     EXCEPT !.sitemaps = <<Url("http", Example, <<"post-sitemap.xml">>)>>,
            !.urls = <<[loc |-> Url("http", Example, <<"platform">>), lastmod |-> 0],
                       [loc |-> Url("http", Example, <<"platform", "overview">>), lastmod |-> 0],
                       [loc |-> Url("http", Example, <<"platform", "security">>), lastmod |-> 0],
                       [loc |-> Url("http", Example, <<"integrations">>), lastmod |-> 0],
                       [loc |-> Url("http", Example, <<"partners">>), lastmod |-> 0],
                       [loc |-> Url("http", Example, <<"careers">>), lastmod |-> 0],
                       [loc |-> Url("http", Example, <<"press">>), lastmod |-> 0],
                       [loc |-> Url("http", Example, <<"x", "y", "z">>), lastmod |-> 0]>>]

LargeSub ==
  [Page(3000, 0, {"<urlset", "<loc>"})
     EXCEPT !.urls = [k \in 1..Len(Slugs) |->
                        [loc |-> Url("http", Example, <<"blog", Slugs[k]>>), lastmod |-> k]]]

LargePages ==
  (<<>> :> Served(200, [Page(5000, 1500, {"<title>"})
                          EXCEPT !.rssHref = [path |-> <<"updates.xml">>]]))
    @@ (<<"sitemap.xml">> :> Served(200, LargeIndex))
    @@ (<<"post-sitemap.xml">> :> Served(200, LargeSub))

Sites ==
  [plain |-> [protocols |-> {"https", "http"}, pages |-> PlainPages],
   spa |-> [protocols |-> {"https", "http"}, pages |-> SpaPages],
   hijacked |-> [protocols |-> {"https"}, pages |-> HijackedPages],
   jsredirect |-> [protocols |-> {"https"}, pages |-> <<>> :> Served(200, JsRedirectPage(300))],
   latejs |-> [protocols |-> {"https"}, pages |-> <<>> :> Served(200, JsRedirectPage(9000))],
   ownredirect |-> [protocols |-> {"https"}, pages |-> <<>> :> Served(200, OwnRedirectPage)],
   parkedtext |-> [protocols |-> {"http"}, pages |-> <<>> :> Served(200, ParkedTextPage)],
   parkedservice |-> [protocols |-> {"https"}, pages |-> <<>> :> Served(200, ParkedServicePage)],
   parkedredirect |-> [protocols |-> {"https"}, pages |-> <<>> :> Served(200, ParkedRedirectPage)],
   index |-> [protocols |-> {"http"}, pages |-> IndexPages],
   feed |-> [protocols |-> {"https"}, pages |-> FeedPages],
   spahelp |-> [protocols |-> {"https"}, pages |-> SpaHelpPages],
   large |-> [protocols |-> {"http"}, pages |-> LargePages],
   broken |-> [protocols |-> {"https"}, pages |-> <<>> :> Served(503, NotFoundPage)],
   down |-> [protocols |-> {}, pages |-> <<>> :> Served(200, NotFoundPage)]]

\* what a request to the site meets when the network does not fail
Respond(s, url) ==
  IF url.protocol \notin Sites[s].protocols THEN NetworkError
  ELSE IF url.path \in DOMAIN Sites[s].pages
       THEN LET page == Sites[s].pages[url.path]
            IN Response(page.status, page.text, IF page.url = Null THEN url ELSE page.url)
       ELSE Response(404, NotFoundPage, url)

(***************************************************************************)
(* The audit pipeline: audit(domain, options), with prefetchSiteData,      *)
(* fetchWithHeadless and fetchMultiPageData inlined at their await.        *)
(***************************************************************************)
\* the requests that may meet a network error by chance in one audit
MaxFaults == 1

\* the audits that are run
Audits ==
  {[domain |-> Example, site |-> s, options |-> [noHeadless |-> FALSE, noMultiPage |-> FALSE]] :
     s \in {"plain", "spa", "hijacked", "jsredirect", "parkedtext", "parkedservice",
            "parkedredirect", "broken", "down"}}
  \cup
  {[domain |-> Example, site |-> s, options |-> [noHeadless |-> FALSE, noMultiPage |-> TRUE]] :
     s \in {"latejs", "ownredirect", "index", "feed", "spahelp"}}
  \cup
  {[domain |-> <<"www", "example", "com">>, site |-> "spa",
    options |-> [noHeadless |-> TRUE, noMultiPage |-> TRUE]]}

\* the local variables of prefetchSiteData before its first statement
NoLocals ==
  [protocol |-> None, homepage |-> Null, redirectedTo |-> NoDomain,
   parkedResult |-> [isParked |-> FALSE, reason |-> Null],
   llmsTxt |-> Null, robotsTxt |-> Null, faqPage |-> Null, sitemapXml |-> Null,
   aiTxt |-> Null, rssFeed |-> Null, faqStep |-> 0, faqFirst |-> Null, rssStep |-> 0,
   blogUrls |-> <<>>, blogSample |-> <<>>, entries |-> <<>>]

NotRendered == [attempted |-> FALSE, url |-> Null, stage |-> None, result |-> Null]

Init ==
  /\ \E a \in Audits : domain = a.domain /\ site = a.site /\ options = a.options
  /\ pc = "https"
  /\ data = Null
  /\ results = <<>>
  /\ overallScore = NoScore
  /\ local = NoLocals
  /\ tasks = <<>>
  /\ requested = EmptyBag
  /\ faults = 0
  /\ headless = [home |-> NotRendered, faq |-> NotRendered]
  /\ renderedWithHeadless = FALSE
  /\ error = Null

\* what a request for the URL can meet: the site's answer, or a network error
\* while the audit has not had its share of those
Outcomes(url) ==
  {Respond(site, url)} \cup (IF faults < MaxFaults THEN {NetworkError} ELSE {})

\* the network errors so far, this outcome included
Met(url, outcome) ==
  IF outcome = NetworkError /\ Respond(site, url) # NetworkError THEN faults + 1 ELSE faults

\* fetch(url) is called
Request(urls) == requested (+) SetToBag(urls)

\* an exception leaves audit(): the caller's promise is rejected with it
FetchFailed == [kind |-> "fetch failed", detail |-> Null]

\* A faulty acceptance test, which no homepage passes
acceptedNever(homepage) == FALSE

\* the status is one of the accepted homepage statuses
accepted(homepage) == homepage # Null /\ homepage.status >= 200 /\ homepage.status < 400

\* prefetchSiteData, line 189: the HTTPS homepage request
FetchHttps ==
  /\ pc = "https"
  /\ LET url == Url("https", domain, <<>>) IN
     \E outcome \in Outcomes(url) :
       LET homepage == fetchText(outcome) IN
       /\ requested' = Request({url})
       /\ faults' = Met(url, outcome)
       /\ IF homepage.state = "rejected"
          THEN /\ pc' = "rejected" /\ error' = FetchFailed /\ UNCHANGED local
          ELSE /\ local' = [local EXCEPT !.homepage = homepage.value,
                                         !.protocol = IF accepted(homepage.value)
                                                      THEN "https" ELSE None]
               /\ pc' = IF accepted(homepage.value) THEN "classify" ELSE "http"
               /\ UNCHANGED error
  /\ UNCHANGED <<data, results, overallScore, domain, site, options, tasks, headless,
                 renderedWithHeadless>>

\* prefetchSiteData, line 193: the HTTP homepage request
FetchHttp ==
  /\ pc = "http"
  /\ LET url == Url("http", domain, <<>>) IN
     \E outcome \in Outcomes(url) :
       LET homepage == fetchText(outcome) IN
       /\ requested' = Request({url})
       /\ faults' = Met(url, outcome)
       /\ IF homepage.state = "rejected"
          THEN /\ pc' = "rejected" /\ error' = FetchFailed /\ UNCHANGED local
          ELSE /\ local' = [local EXCEPT !.homepage = homepage.value,
                                         !.protocol = IF accepted(homepage.value)
                                                      THEN "http" ELSE None]
               /\ pc' = "classify"
               /\ UNCHANGED error
  /\ UNCHANGED <<data, results, overallScore, domain, site, options, tasks, headless,
                 renderedWithHeadless>>

\* the number of characters the classifiers read of the homepage
SnippetLength == 8192

\* classified with the parked test left out
classifiedRedirectOnly(originalDomain, protocol, homepage, redirectedTo, parkedResult) ==
  IF redirectedTo # NoDomain
  THEN [EmptySiteData EXCEPT !.domain = originalDomain, !.protocol = protocol,
                             !.homepage = homepage, !.redirectedTo = redirectedTo]
  ELSE Null

\* prefetchSiteData, lines 204 to 216: what is returned at once for a homepage
\* that forwards to another brand or is parked (Null: acquisition goes on)
classified(originalDomain, protocol, homepage, redirectedTo, parkedResult) ==
  IF redirectedTo # NoDomain
  THEN [EmptySiteData EXCEPT !.domain = originalDomain, !.protocol = protocol,
                             !.homepage = homepage, !.redirectedTo = redirectedTo]
  ELSE IF parkedResult.isParked
  THEN [EmptySiteData EXCEPT !.domain = originalDomain, !.protocol = protocol,
                             !.homepage = homepage,
                             !.parkedReason = IF parkedResult.reason # Null
                                              THEN parkedResult.reason
                                              ELSE [signal |-> "parked", value |-> ""]]
  ELSE Null

\* the five requests of prefetchSiteData's Promise.all
secondaryPaths ==
  [llmsTxt |-> <<"llms.txt">>, robotsTxt |-> <<"robots.txt">>, faqPage |-> <<"faq">>,
   sitemapXml |-> <<"sitemap.xml">>, aiTxt |-> <<"ai.txt">>]

\* A faulty list of fallbacks, with /help before /frequently-asked-questions
faqFallbacksHelpFirst == <<<<"help">>, <<"frequently-asked-questions">>, <<"support">>, <<"help-center">>>>

\* the FAQ paths tried after /faq
faqFallbacks == <<<<"frequently-asked-questions">>, <<"help">>, <<"support">>, <<"help-center">>>>

\* prefetchSiteData, lines 199 to 235: no protocol, a forwarded or a parked
\* homepage end the acquisition; otherwise the five secondary requests go out
Classify ==
  /\ pc = "classify"
  /\ IF local.protocol = None
     THEN /\ data' = [EmptySiteData EXCEPT !.domain = domain]
          /\ pc' = "prefetched"
          /\ UNCHANGED <<local, tasks, requested>>
     ELSE LET homepage == local.homepage
              httpRedirect == detectCrossDomainRedirect(domain, homepage)
              jsRedirect == detectJsRedirect(slice(homepage.text, SnippetLength), domain)
              redirectedTo == IF httpRedirect # NoDomain THEN httpRedirect ELSE jsRedirect
              parkedResult == detectParkedDomain(slice(homepage.text, SnippetLength))
              returned == classified(domain, local.protocol, homepage, redirectedTo, parkedResult)
          IN /\ local' = [local EXCEPT !.redirectedTo = redirectedTo,
                                       !.parkedResult = parkedResult]
             /\ IF returned # Null
                THEN /\ data' = returned
                     /\ pc' = "prefetched"
                     /\ UNCHANGED <<tasks, requested>>
                ELSE /\ tasks' = [t \in DOMAIN secondaryPaths |-> Pending]
                     /\ requested' = Request({Url(local.protocol, domain, secondaryPaths[t]) :
                                                t \in DOMAIN secondaryPaths})
                     /\ pc' = "secondary"
                     /\ UNCHANGED data
  /\ UNCHANGED <<results, overallScore, domain, site, options, faults, headless,
                 renderedWithHeadless, error>>

\* one of the requests for llms.txt, robots.txt, sitemap.xml and ai.txt ends
SettleSecondary ==
  /\ pc = "secondary"
  /\ \E t \in DOMAIN secondaryPaths \ {"faqPage"} :
       LET url == Url(local.protocol, domain, secondaryPaths[t]) IN
       \E outcome \in Outcomes(url) :
         /\ tasks[t].state = "pending"
         /\ tasks' = [tasks EXCEPT ![t] = fetchText(outcome)]
         /\ faults' = Met(url, outcome)
  /\ UNCHANGED <<data, results, overallScore, pc, domain, site, options, local, requested,
                 headless, renderedWithHeadless, error>>

\* prefetchSiteData, lines 224 to 232: a request of the FAQ chain ends; a 200
\* ends the chain, anything else sends the next path's request, and after the
\* last path the chain gives what /faq itself gave
SettleFaq ==
  /\ pc = "secondary"
  /\ tasks["faqPage"].state = "pending"
  /\ LET k == local.faqStep
         path == IF k = 0 THEN secondaryPaths["faqPage"] ELSE faqFallbacks[k]
         url == Url(local.protocol, domain, path)
     IN \E outcome \in Outcomes(url) :
          LET p == fetchText(outcome)
              first == IF k = 0 THEN p.value ELSE local.faqFirst
          IN /\ faults' = Met(url, outcome)
             /\ IF p.state = "rejected"
                THEN /\ tasks' = [tasks EXCEPT !["faqPage"] = Rejected]
                     /\ UNCHANGED <<local, requested>>
                ELSE IF p.value # Null /\ p.value.status = 200
                THEN /\ tasks' = [tasks EXCEPT !["faqPage"] = Fulfilled(p.value)]
                     /\ UNCHANGED <<local, requested>>
                ELSE IF k < Len(faqFallbacks)
                THEN /\ local' = [local EXCEPT !.faqStep = k + 1, !.faqFirst = first]
                     /\ requested' = Request({Url(local.protocol, domain, faqFallbacks[k + 1])})
                     /\ UNCHANGED tasks
                ELSE /\ tasks' = [tasks EXCEPT !["faqPage"] = Fulfilled(first)]
                     /\ UNCHANGED <<local, requested>>
  /\ UNCHANGED <<data, results, overallScore, pc, domain, site, options, headless,
                 renderedWithHeadless, error>>

\* Promise.all is rejected as soon as one of its promises is, and fulfilled
\* when all of them are
anyRejected(promises) == \E t \in DOMAIN promises : promises[t].state = "rejected"
allFulfilled(promises) == \A t \in DOMAIN promises : promises[t].state = "fulfilled"

\* prefetchSiteData, lines 221 to 245: the await of Promise.all returns; the
\* feed named by the homepage's <link> is looked for next, or the common
\* feed paths when there is none
JoinSecondary ==
  /\ pc = "secondary"
  /\ IF anyRejected(tasks)
     THEN /\ pc' = "rejected" /\ error' = FetchFailed
          /\ UNCHANGED <<local, tasks>>
     ELSE /\ allFulfilled(tasks)
          /\ local' = [local EXCEPT !.llmsTxt = tasks["llmsTxt"].value,
                                    !.robotsTxt = tasks["robotsTxt"].value,
                                    !.faqPage = tasks["faqPage"].value,
                                    !.sitemapXml = tasks["sitemapXml"].value,
                                    !.aiTxt = tasks["aiTxt"].value,
                                    !.rssStep = 1]
          /\ tasks' = <<>>
          /\ pc' = IF local.homepage.text.rssHref # Null THEN "rssLink" ELSE "rssFallback"
          /\ UNCHANGED error
  /\ UNCHANGED <<data, results, overallScore, domain, site, options, requested, faults,
                 headless, renderedWithHeadless>>

\* rssLinkMatch[1].startsWith('http') ? rssLinkMatch[1] : baseUrl + rssLinkMatch[1]
rssUrl(protocol, originalDomain, href) ==
  IF "host" \in DOMAIN href THEN href ELSE Url(protocol, originalDomain, href.path)

\* prefetchSiteData, lines 240 to 243: the feed the homepage names is fetched
FetchRssLink ==
  /\ pc = "rssLink"
  /\ LET url == rssUrl(local.protocol, domain, local.homepage.text.rssHref) IN
     \E outcome \in Outcomes(url) :
       LET p == fetchText(outcome) IN
       /\ requested' = Request({url})
       /\ faults' = Met(url, outcome)
       /\ IF p.state = "rejected"
          THEN /\ pc' = "rejected" /\ error' = FetchFailed /\ UNCHANGED local
          ELSE /\ local' = [local EXCEPT !.rssFeed = p.value]
               /\ pc' = IF p.value = Null \/ p.value.status # 200 THEN "rssFallback"
                        ELSE "sitemap"
               /\ UNCHANGED error
  /\ UNCHANGED <<data, results, overallScore, domain, site, options, tasks, headless,
                 renderedWithHeadless>>

\* A faulty list of feed paths, with /rss.xml first
rssFallbacksXmlFirst == <<<<"rss.xml">>, <<"feed">>, <<"feed.xml">>>>

rssFallbacks == <<<<"feed">>, <<"rss.xml">>, <<"feed.xml">>>>

\* rssFeed.text.includes('<rss') || .includes('<feed') || .includes('<channel')
looksLikeFeed(text) == Has(text, "<rss") \/ Has(text, "<feed") \/ Has(text, "<channel")

\* prefetchSiteData, lines 245 to 252: one turn of the loop over the common
\* feed paths; the first 200 answer that looks like a feed is kept
FetchRssFallback ==
  /\ pc = "rssFallback"
  /\ LET url == Url(local.protocol, domain, rssFallbacks[local.rssStep]) IN
     \E outcome \in Outcomes(url) :
       LET p == fetchText(outcome)
           found == p.value # Null /\ p.value.status = 200 /\ looksLikeFeed(p.value.text)
       IN
       /\ requested' = Request({url})
       /\ faults' = Met(url, outcome)
       /\ IF p.state = "rejected"
          THEN /\ pc' = "rejected" /\ error' = FetchFailed /\ UNCHANGED local
          ELSE /\ local' = [local EXCEPT !.rssFeed = IF found THEN p.value ELSE Null,
                                         !.rssStep = IF found THEN @ ELSE @ + 1]
               /\ pc' = IF found \/ local.rssStep = Len(rssFallbacks) THEN "sitemap"
                        ELSE "rssFallback"
               /\ UNCHANGED error
  /\ UNCHANGED <<data, results, overallScore, domain, site, options, tasks, headless,
                 renderedWithHeadless>>

\* the elements of a list, each as often as the list holds it
RECURSIVE ListToBag(_)
ListToBag(list) ==
  IF list = <<>> THEN EmptyBag ELSE SetToBag({Head(list)}) (+) ListToBag(Tail(list))

\* prefetchSiteData, lines 269 to 271: the blog URLs of the sitemap are
\* requested, all at once (sent: the requests up to here)
SampleBlog(sitemapForBlog, sent) ==
  LET blogUrls == extractBlogUrlsFromSitemap(sitemapForBlog, domain, 10) IN
  IF blogUrls = <<>>
  THEN /\ pc' = "return"
       /\ requested' = sent
       /\ UNCHANGED <<local, tasks>>
  ELSE /\ pc' = "blog"
       /\ requested' = sent (+) ListToBag(blogUrls)
       /\ local' = [local EXCEPT !.blogUrls = blogUrls]
       /\ tasks' = [i \in 1..Len(blogUrls) |-> Pending]

\* prefetchSiteData, lines 256 to 262: with a 200 sitemap that is an index the
\* sub-sitemap is fetched first; without a 200 sitemap no blog page is sampled
ReadSitemap ==
  /\ pc = "sitemap"
  /\ LET sitemapXml == local.sitemapXml IN
     IF sitemapXml = Null \/ sitemapXml.status # 200
     THEN /\ pc' = "return"
          /\ UNCHANGED <<local, tasks, requested>>
     ELSE IF extractSubSitemapUrl(sitemapXml.text) # Null
     THEN /\ pc' = "subSitemap"
          /\ UNCHANGED <<local, tasks, requested>>
     ELSE SampleBlog(sitemapXml.text, requested)
  /\ UNCHANGED <<data, results, overallScore, domain, site, options, faults, headless,
                 renderedWithHeadless, error>>

\* prefetchSiteData, lines 262 to 267: the sub-sitemap is used when it
\* answers 200, the index itself otherwise
FetchSubSitemap ==
  /\ pc = "subSitemap"
  /\ LET url == extractSubSitemapUrl(local.sitemapXml.text) IN
     \E outcome \in Outcomes(url) :
       LET p == fetchText(outcome) IN
       /\ faults' = Met(url, outcome)
       /\ IF p.state = "rejected"
          THEN /\ pc' = "rejected" /\ error' = FetchFailed
               /\ requested' = Request({url})
               /\ UNCHANGED <<local, tasks>>
          ELSE /\ SampleBlog(IF p.value # Null /\ p.value.status = 200 THEN p.value.text
                             ELSE local.sitemapXml.text,
                             Request({url}))
               /\ UNCHANGED error
  /\ UNCHANGED <<data, results, overallScore, domain, site, options, headless,
                 renderedWithHeadless>>

\* the request for one of the blog pages ends
SettleBlog ==
  /\ pc = "blog"
  /\ \E i \in DOMAIN tasks :
       \E outcome \in Outcomes(local.blogUrls[i]) :
         /\ tasks[i].state = "pending"
         /\ tasks' = [tasks EXCEPT ![i] = fetchText(outcome)]
         /\ faults' = Met(local.blogUrls[i], outcome)
  /\ UNCHANGED <<data, results, overallScore, pc, domain, site, options, local, requested,
                 headless, renderedWithHeadless, error>>

\* A faulty filter, which keeps a long body whatever its status
sampledAnyStatus(r) == r # Null /\ r.text.len > 500


\* a page of the sample is a 200 answer of more than 500 characters
sampled(r) == r # Null /\ r.status = 200 /\ r.text.len > 500

\* the values of the promises, each tagged with its category
tagged(promises, categories) ==
  [i \in 1..Len(promises) |->
     IF promises[i].value = Null THEN Null
     ELSE [promises[i].value EXCEPT !.category = categories[i]]]

\* prefetchSiteData, lines 271 to 279: the await of the blog pages returns
JoinBlog ==
  /\ pc = "blog"
  /\ IF anyRejected(tasks)
     THEN /\ pc' = "rejected" /\ error' = FetchFailed
          /\ UNCHANGED <<local, tasks>>
     ELSE /\ allFulfilled(tasks)
          /\ local' = [local EXCEPT
                         !.blogSample = SelectSeq(tagged(tasks, [i \in DOMAIN tasks |-> "blog"]),
                                                 sampled)]
          /\ tasks' = <<>>
          /\ pc' = "return"
          /\ UNCHANGED error
  /\ UNCHANGED <<data, results, overallScore, domain, site, options, requested, faults,
                 headless, renderedWithHeadless>>

\* prefetchSiteData, lines 283 to 285: the homepage is tagged and the snapshot
\* returned
Return ==
  /\ pc = "return"
  /\ data' = [domain |-> domain, protocol |-> local.protocol,
              homepage |-> [local.homepage EXCEPT !.category = "homepage"],
              llmsTxt |-> local.llmsTxt, robotsTxt |-> local.robotsTxt,
              faqPage |-> local.faqPage, sitemapXml |-> local.sitemapXml,
              rssFeed |-> local.rssFeed, aiTxt |-> local.aiTxt,
              redirectedTo |-> NoDomain, parkedReason |-> Null,
              blogSample |-> local.blogSample]
  /\ pc' = "prefetched"
  /\ UNCHANGED <<results, overallScore, domain, site, options, local, tasks, requested,
                 faults, headless, renderedWithHeadless, error>>

(***************************************************************************)
(* audit(), after the acquisition                                          *)
(***************************************************************************)
\* fatal with the parked test left out
fatalUnlessParked(siteData) ==
  IF siteData.protocol = None
  THEN [kind |-> "no HTTPS or HTTP response", detail |-> Null]
  ELSE IF siteData.redirectedTo # NoDomain
  THEN [kind |-> "hijacked domain", detail |-> siteData.redirectedTo]
  ELSE Null

\* audit, lines 57 to 67: the Error audit throws for the snapshot, with the
\* text that names the finding and what it puts into it (Null: none is thrown)
fatal(siteData) ==
  IF siteData.protocol = None
  THEN [kind |-> "no HTTPS or HTTP response", detail |-> Null]
  ELSE IF siteData.redirectedTo # NoDomain
  THEN [kind |-> "hijacked domain", detail |-> siteData.redirectedTo]
  ELSE IF siteData.parkedReason # Null
  THEN [kind |-> "parked/lost domain", detail |-> siteData.parkedReason]
  ELSE Null

\* audit, lines 55 to 69: the acquired snapshot is looked at, and the audit
\* rejected when it is of no use
AuditCheck ==
  /\ pc = "prefetched"
  /\ IF fatal(data) # Null
     THEN /\ pc' = "rejected"
          /\ error' = fatal(data)
     ELSE /\ pc' = "headless"
          /\ UNCHANGED error
  /\ UNCHANGED <<data, results, overallScore, domain, site, options, local, tasks,
                 requested, faults, headless, renderedWithHeadless>>

\* the visible text a rendering can add to a page
MoreText == 2000

\* what the browser can make of a page: the library is not installed, the
\* launch or the navigation fails, or the page is rendered with less, as much
\* or more visible text
Renderings(text) ==
  {[stage |-> "import"], [stage |-> "launch"], [stage |-> "goto"]}
    \cup {[stage |-> "content", html |-> [text EXCEPT !.visLen = v, !.textLen = v, !.len = @ + v]] :
            v \in {text.visLen - 1, text.visLen, text.visLen + 1, text.visLen + MoreText}}

\* fetchWithHeadless with what the import, the launch or the navigation throws
\* let through
fetchWithHeadlessUncaught(url, rendering) ==
  IF rendering.stage # "content" THEN Rejected
  ELSE Fulfilled([text |-> truncate(rendering.html), status |-> 200, finalUrl |-> url,
                  category |-> None])

\* fetchWithHeadless: the rendered document, null when anything fails
fetchWithHeadless(url, rendering) ==
  IF rendering.stage # "content" THEN Fulfilled(Null)
  ELSE Fulfilled([text |-> truncate(rendering.html), status |-> 200, finalUrl |-> url,
                  category |-> None])

\* what audit is rejected with when an await of fetchWithHeadless throws
RenderFailed == [kind |-> "render failed", detail |-> Null]

\* the test of audit, lines 75 to 77, always passed
replacesAlways(rendered, original) == rendered # Null

\* audit, lines 75 to 77: the rendered document replaces the fetched one when
\* it has more visible text
replaces(rendered, original) ==
  rendered # Null /\ getTextLength(rendered.text) > getTextLength(original.text)

\* The test of audit, line 83, without its first operand
rendersFaqOfAnyShell(rendered, faqPage) == faqPage # Null /\ isSpaShell(faqPage.text)

\* audit, line 83: renderedWithHeadless && siteData.faqPage &&
\* isSpaShell(siteData.faqPage.text)
rendersFaq(rendered, faqPage) == rendered /\ faqPage # Null /\ isSpaShell(faqPage.text)

\* audit, lines 70 to 82 and 83: the homepage that is an SPA shell is rendered
RenderHomepage ==
  /\ pc = "headless"
  /\ IF ~options.noHeadless /\ data.homepage # Null /\ isSpaShell(data.homepage.text)
     THEN \E rendering \in Renderings(data.homepage.text) :
            LET url == Url(data.protocol, domain, <<>>)
                settled == fetchWithHeadless(url, rendering)
                rendered == settled.value
                replaced == replaces(rendered, data.homepage)
            IN /\ headless' = [headless EXCEPT !.home = [attempted |-> TRUE, url |-> url,
                                                         stage |-> rendering.stage,
                                                         result |-> rendered]]
               /\ IF settled.state = "rejected"
                  THEN /\ pc' = "rejected" /\ error' = RenderFailed
                       /\ UNCHANGED <<data, renderedWithHeadless>>
                  ELSE /\ data' = IF replaced THEN [data EXCEPT !.homepage = rendered] ELSE data
                       /\ renderedWithHeadless' = replaced
                       /\ pc' = IF rendersFaq(replaced, data.faqPage)
                                THEN "headlessFaq" ELSE "multipage"
                       /\ UNCHANGED error
     ELSE /\ pc' = "multipage"
          /\ UNCHANGED <<data, headless, renderedWithHeadless, error>>
  /\ UNCHANGED <<results, overallScore, domain, site, options, local, tasks, requested,
                 faults>>

\* what the browser can make of the page the site serves at the URL
RenderingsAt(url) ==
  LET served == Respond(site, url)
  IN IF served = NetworkError THEN {[stage |-> "import"], [stage |-> "launch"], [stage |-> "goto"]}
     ELSE Renderings(truncate(served.text))

\* audit, lines 83 to 89: the FAQ page that is an SPA shell is rendered too;
\* the page rendered is the one at /faq
RenderFaq ==
  /\ pc = "headlessFaq"
  /\ \E rendering \in RenderingsAt(Url(data.protocol, domain, <<"faq">>)) :
       LET faqUrl == Url(data.protocol, domain, <<"faq">>)
           settled == fetchWithHeadless(faqUrl, rendering)
           renderedFaq == settled.value
       IN /\ headless' = [headless EXCEPT !.faq = [attempted |-> TRUE, url |-> faqUrl,
                                                   stage |-> rendering.stage,
                                                   result |-> renderedFaq]]
          /\ IF settled.state = "rejected"
             THEN /\ pc' = "rejected" /\ error' = RenderFailed
                  /\ UNCHANGED data
             ELSE /\ data' = IF replaces(renderedFaq, data.faqPage)
                             THEN [data EXCEPT !.faqPage = renderedFaq] ELSE data
                  /\ pc' = "multipage"
                  /\ UNCHANGED error
  /\ UNCHANGED <<results, overallScore, domain, site, options, local, tasks, requested,
                 faults, renderedWithHeadless>>

\* fetchMultiPageData, lines 163 to 217: the candidate pages are requested,
\* all at once; nothing is done without a homepage or without candidates
StartMultiPage ==
  /\ pc = "multipage"
  /\ IF options.noMultiPage \/ data.protocol = None \/ data.homepage = Null
     THEN /\ pc' = "score"
          /\ UNCHANGED <<local, tasks, requested>>
     ELSE \E entries \in {urlsToFetch(data)} :
          IF entries = <<>>
          THEN /\ pc' = "score"
               /\ UNCHANGED <<local, tasks, requested>>
          ELSE /\ local' = [local EXCEPT !.entries = entries]
               /\ tasks' = [i \in 1..Len(entries) |-> Pending]
               /\ requested' = requested (+) ListToBag([i \in 1..Len(entries) |-> entries[i].url])
               /\ pc' = "pages"
  /\ UNCHANGED <<data, results, overallScore, domain, site, options, faults, headless,
                 renderedWithHeadless, error>>

\* the request for one of the candidate pages ends
SettlePage ==
  /\ pc = "pages"
  /\ \E i \in DOMAIN tasks :
       \E outcome \in Outcomes(local.entries[i].url) :
         /\ tasks[i].state = "pending"
         /\ tasks' = [tasks EXCEPT ![i] = fetchPage(outcome)]
         /\ faults' = Met(local.entries[i].url, outcome)
  /\ UNCHANGED <<data, results, overallScore, pc, domain, site, options, local, requested,
                 headless, renderedWithHeadless, error>>

\* a fetched page is added when its text is longer than 500 characters
added(result) == result # Null /\ result.text.len > 500

\* A faulty push, which puts the new pages in front of the list
pushInFront(list, items) == items \o list

\* siteData.blogSample.push(result), for each of the items in their order
push(list, items) == list \o items

\* fetchMultiPageData, lines 217 to 232: the await of the candidate pages
\* returns, and the pages that count are appended to the page sample
JoinPages ==
  /\ pc = "pages"
  /\ IF anyRejected(tasks)
     THEN /\ pc' = "rejected" /\ error' = FetchFailed
          /\ UNCHANGED <<data, tasks>>
     ELSE /\ allFulfilled(tasks)
          /\ data' = [data EXCEPT
                        !.blogSample =
                           push(@, SelectSeq(tagged(tasks, [i \in DOMAIN tasks |->
                                                              local.entries[i].category]),
                                             added))]
          /\ tasks' = <<>>
          /\ pc' = "score"
          /\ UNCHANGED error
  /\ UNCHANGED <<results, overallScore, domain, site, options, local, requested, faults,
                 headless, renderedWithHeadless>>

\* audit, lines 98 to 133: the snapshot is scored and the report returned
Score ==
  /\ pc = "score"
  /\ results' = auditSiteFromData(data)
  /\ overallScore' = calculateOverallScore(results')
  /\ pc' = "done"
  /\ UNCHANGED <<data, domain, site, options, local, tasks, requested, faults, headless,
                 renderedWithHeadless, error>>

\* the steps that acquire the snapshot: every one of them waits for requests
\* or runs when they have ended
Acquisition ==
  \/ FetchHttps \/ FetchHttp \/ Classify
  \/ SettleSecondary \/ SettleFaq \/ JoinSecondary
  \/ FetchRssLink \/ FetchRssFallback
  \/ ReadSitemap \/ FetchSubSitemap \/ SettleBlog \/ JoinBlog \/ Return
  \/ AuditCheck \/ RenderHomepage \/ RenderFaq
  \/ StartMultiPage \/ SettlePage \/ JoinPages

Next == Acquisition \/ Score

Spec == Init /\ [][Next]_vars

\* Every request ends (each runs under its timeout) and every continuation
\* that can run does.  The scoring that follows the acquisition is one
\* synchronous computation and needs no such assumption.
FairSpec == Spec /\ WF_vars(Acquisition)

(***************************************************************************)
(* Classifying a given homepage: detectParkedDomain applied to the first   *)
(* 8192 characters of a homepage, as prefetchSiteData applies it           *)
(***************************************************************************)
\* Homepages with any of the parking signals, early or late in their text
ParkedInputs ==
  {[Page(12000, 300, {"<title>"}) EXCEPT !.parkRedirect = r, !.parkService = sv, !.parkText = tx] :
     r \in {Null, [path |-> "/sedoparking", at |-> 100], [path |-> "/Lander?from=home", at |-> 150],
            [path |-> "/home", at |-> 100], [path |-> "/park", at |-> 9000]},
     sv \in SUBSET {[name |-> "bodis.com", at |-> 600], [name |-> "sedoparking.com", at |-> 9500]},
     tx \in SUBSET {[phrase |-> "parked by", at |-> 700], [phrase |-> "buy this domain", at |-> 800]}}

InitParked ==
  /\ pc = "snippet"
  /\ \E text \in ParkedInputs :
       local = [NoLocals EXCEPT !.protocol = "https", !.homepage = Doc(200, text)]
  /\ domain = Example /\ site = "none"
  /\ options = [noHeadless |-> FALSE, noMultiPage |-> FALSE]
  /\ data = Null /\ results = <<>> /\ overallScore = NoScore
  /\ tasks = <<>> /\ requested = EmptyBag /\ faults = 0
  /\ headless = [home |-> NotRendered, faq |-> NotRendered]
  /\ renderedWithHeadless = FALSE /\ error = Null

\* prefetchSiteData, line 213: detectParkedDomain(homepage.text.slice(0, 8192))
DetectParked ==
  /\ pc = "snippet"
  /\ local' = [local EXCEPT
                 !.parkedResult = detectParkedDomain(slice(local.homepage.text, SnippetLength))]
  /\ pc' = "classified"
  /\ UNCHANGED <<data, results, overallScore, domain, site, options, tasks, requested,
                 faults, headless, renderedWithHeadless, error>>

NextParked == DetectParked

SpecParked == InitParked /\ [][NextParked]_vars

(***************************************************************************)
(* Running the evaluators of auditSiteFromData one by one, each on the     *)
(* snapshot object the ones before it have left                            *)
(***************************************************************************)
\* the evaluators, numbered as auditSiteFromData lists them
Evaluators == 1..23

\* the i-th evaluator applied to a snapshot
evaluator(i, snapshot) == auditSiteFromData(snapshot)[i]

\* A faulty evaluator: checkSpeakableSchema lets go of the homepage it has read
snapshotAfterDroppingHomepage(i, snapshot) ==
  IF i = 23 THEN [snapshot EXCEPT !.homepage = Null] ELSE snapshot

\* the snapshot object after the i-th evaluator has returned: the evaluators
\* assign to no field of data and call no mutating method on its documents
snapshotAfter(i, snapshot) == snapshot

\* as listed, in reverse, and the even evaluators before the odd ones
Orders ==
  {[k \in Evaluators |-> k], [k \in Evaluators |-> 24 - k],
   [k \in Evaluators |-> IF k <= 11 THEN 2 * k ELSE 2 * (k - 11) - 1]}

OrderInputs == NonOkInputs \cup NoHomepageInputs \cup FAQInputs \cup RssInputs

InitOrder ==
  /\ pc = "evaluating"
  /\ data \in OrderInputs
  /\ \E order \in Orders : local = [order |-> order, snapshot |-> data]
  /\ results = [i \in Evaluators |-> Null]
  /\ overallScore = NoScore
  /\ domain = <<>> /\ site = "none"
  /\ options = [noHeadless |-> FALSE, noMultiPage |-> FALSE]
  /\ tasks = <<>> /\ requested = EmptyBag /\ faults = 0
  /\ headless = Null /\ renderedWithHeadless = FALSE /\ error = Null

\* the evaluators that have returned
haveReturned == {i \in Evaluators : results[i] # Null}

\* the next evaluator of the order runs on data and returns its result
RunEvaluator ==
  /\ pc = "evaluating"
  /\ LET i == local.order[Cardinality(haveReturned) + 1]
     IN /\ results' = [results EXCEPT ![i] = evaluator(i, data)]
        /\ data' = snapshotAfter(i, data)
  /\ pc' = IF Cardinality(haveReturned) + 1 = Cardinality(Evaluators) THEN "evaluated"
           ELSE "evaluating"
  /\ UNCHANGED <<overallScore, domain, site, options, local, tasks, requested, faults,
                 headless, renderedWithHeadless, error>>

NextOrder == RunEvaluator

SpecOrder == InitOrder /\ [][NextOrder]_vars

Range(list) == {list[i] : i \in DOMAIN list}

\* C17: detectParkedDomain gives the reason of the first of its three signals
\* that the snippet holds, in the order redirect to a parking path, name of a
\* parking service, parking phrase; without any of them it gives isParked
\* false and no reason
FirstParkingSignalWins ==
  pc = "classified" =>
    LET snippet == slice(local.homepage.text, SnippetLength)
        result == local.parkedResult
        byRedirect == /\ snippet.parkRedirect # Null
                      /\ normalPath(snippet.parkRedirect.path) \in PARKING_PATHS
        byService == \E x \in snippet.parkService : x.name \in Range(PARKING_SERVICE_DOMAINS)
        byText == \E x \in snippet.parkText : x.phrase \in Range(PARKING_TEXT_PATTERNS)
    IN /\ result.isParked <=> byRedirect \/ byService \/ byText
       /\ ~result.isParked => result.reason = Null
       /\ byRedirect => result.reason.signal = "js-redirect to"
       /\ ~byRedirect /\ byService => result.reason.signal = "parking service"
       /\ ~byRedirect /\ ~byService /\ byText => result.reason.signal = "parking text"

\* C17 at work: a snippet holds all three signals, and the reason given is
\* its redirect to /sedoparking
RedirectNamedBeforeServiceAndText ==
  /\ pc = "classified"
  /\ local.homepage.text.parkService # {} /\ local.homepage.text.parkText # {}
  /\ local.parkedResult = [isParked |-> TRUE,
                            reason |-> [signal |-> "js-redirect to", value |-> "/sedoparking"]]

(***************************************************************************)
(* Properties of the audit pipeline                                        *)
(***************************************************************************)
\* the two forms of the homepage URL that the protocol detection requests
HomepageUrls == {Url("https", domain, <<>>), Url("http", domain, <<>>)}

\* C1: once prefetchSiteData has classified the homepage as forwarding to
\* another brand or as parked, it has returned, no request other than the
\* homepage's has been or is ever sent, and the snapshot it returned holds
\* none of llms.txt, robots.txt, FAQ page, sitemap, RSS feed and ai.txt and
\* an empty page sample
ClassificationEndsAcquisition ==
  local # Null /\ (local.redirectedTo # NoDomain \/ local.parkedResult.isParked) =>
    /\ BagToSet(requested) \subseteq HomepageUrls
    /\ DOMAIN tasks = {}
    /\ data # Null
    /\ data.redirectedTo # NoDomain \/ data.parkedReason # Null
    /\ \A f \in {"llmsTxt", "robotsTxt", "faqPage", "sitemapXml", "rssFeed", "aiTxt"} :
         data[f] = Null
    /\ data.blogSample = <<>>

\* C1 at work: a parked site that answers over HTTP only has been acquired
\* with the two homepage requests and nothing else
ParkedSiteAcquired ==
  /\ pc = "prefetched"
  /\ local.parkedResult.isParked
  /\ data.parkedReason = [signal |-> "parking text", value |-> "domain for sale"]
  /\ data.protocol = "http"
  /\ requested = SetToBag(HomepageUrls)

LaterPhases == {"headless", "headlessFaq", "multipage", "pages", "score", "done"}

\* C2: an audit whose snapshot has no protocol, a redirect target or a parked
\* reason never enters the headless, multi-page or scoring phase; when audit
\* has rejected, nothing was rendered, no page discovered and nothing scored,
\* and the reason names the one of the three findings that the snapshot shows
FatalFindingsReject ==
  /\ pc \in LaterPhases =>
       data.protocol # None /\ data.redirectedTo = NoDomain /\ data.parkedReason = Null
  /\ pc = "rejected" =>
       /\ data # Null
       /\ error.kind \in {"no HTTPS or HTTP response", "hijacked domain", "parked/lost domain"}
       /\ error.kind = "no HTTPS or HTTP response" <=> data.protocol = None
       /\ error.kind = "hijacked domain" <=>
            data.redirectedTo # NoDomain /\ error.detail = data.redirectedTo
       /\ error.kind = "parked/lost domain" <=>
            data.parkedReason # Null /\ error.detail = data.parkedReason
       /\ ~headless.home.attempted /\ ~headless.faq.attempted
       /\ local.entries = <<>>
       /\ results = <<>> /\ overallScore = NoScore

\* C2 at work: the audit of a site whose page sends the browser to another
\* brand has been rejected as hijacked, with that brand's host in the reason
HijackedAuditRejected ==
  /\ pc = "rejected"
  /\ site = "jsredirect"
  /\ error = [kind |-> "hijacked domain", detail |-> <<"other", "com">>]

\* a page that the page sample takes in
Counts(doc) == doc # Null /\ doc.status = 200 /\ doc.text.len > 500

\* the sample holds the document, whatever its tag
Holds(sample, doc) ==
  \E j \in 1..Len(sample) : sample[j].text = doc.text /\ sample[j].finalUrl = doc.finalUrl

\* one step of a concurrent phase: what a request has given stays as it is
\* while the others end or fail, and the step that leaves the phase does not
\* reject the audit and hands every request's result on
SiblingsKeepResults ==
  /\ \A t \in DOMAIN tasks :
       tasks[t].state = "fulfilled" /\ pc' = pc => t \in DOMAIN tasks' /\ tasks'[t] = tasks[t]
  /\ pc \in {"secondary", "blog", "pages"} /\ pc' # pc => pc' # "rejected"
  /\ pc = "secondary" /\ pc' # pc =>
       \A t \in {"llmsTxt", "robotsTxt", "faqPage", "sitemapXml", "aiTxt"} :
         tasks[t].state = "fulfilled" /\ local'[t] = tasks[t].value
  /\ pc = "blog" /\ pc' # pc =>
       \A i \in DOMAIN tasks : Counts(tasks[i].value) => Holds(local'.blogSample, tasks[i].value)
  /\ pc = "pages" /\ pc' # pc =>
       \A i \in DOMAIN tasks : Counts(tasks[i].value) => Holds(data'.blogSample, tasks[i].value)

\* C3: an audit that has resolved a protocol and found the homepage neither
\* forwarded nor parked is never rejected, whichever of its requests fail: it
\* comes to its scoring, which gives 23 criterion results; and in its
\* concurrent phases a failing request takes nothing from the others
\* (SiblingsKeepResults)
FetchFailuresAbsorbed ==
  /\ [](pc = "rejected" =>
          /\ data # Null
          /\ data.protocol = None \/ data.redirectedTo # NoDomain \/ data.parkedReason # Null)
  /\ [](pc = "done" => Len(results) = 23)
  /\ [][SiblingsKeepResults]_vars
  /\ (pc = "secondary" ~> pc = "score")

\* C3 at work: the request for llms.txt met a network error, its siblings'
\* documents are in the snapshot, and the audit has ended with 23 results
FailedRequestAbsorbed ==
  /\ pc = "done"
  /\ site = "plain"
  /\ faults = 1
  /\ data.llmsTxt = Null
  /\ data.robotsTxt # Null /\ data.sitemapXml # Null /\ data.faqPage # Null
  /\ Len(data.blogSample) = 4
  /\ Len(results) = 23

\* a step of fetchMultiPageData leaves every field of the snapshot as it is,
\* but for the page sample, to which it may add entries at the end
SampleOnlyGrows ==
  pc \in {"multipage", "pages"} =>
    /\ \A f \in DOMAIN data \ {"blogSample"} : data'[f] = data[f]
    /\ Len(data'.blogSample) >= Len(data.blogSample)
    /\ SubSeq(data'.blogSample, 1, Len(data.blogSample)) = data.blogSample

\* C13: while fetchMultiPageData runs, every step leaves every field of the
\* snapshot as it is, but for the page sample, which keeps the entries it has,
\* unmodified and at their positions, and may get more at its end
MultiPageOnlyAppends == [][SampleOnlyGrows]_vars

\* C13 at work: fetchMultiPageData has returned, and the page sample holds
\* the blog page that the acquisition sampled and, after it, the new pages
PagesAppended ==
  /\ pc = "score"
  /\ local.entries # <<>>
  /\ local.blogSample # <<>>
  /\ Len(data.blogSample) > Len(local.blogSample)
  /\ SubSeq(data.blogSample, 1, Len(local.blogSample)) = local.blogSample

\* the tags that the acquisition and the page discovery give
PageCategories == {"blog", "content"} \cup {PAGE_VARIANTS[k].category : k \in DOMAIN PAGE_VARIANTS}

\* C14: from the return of prefetchSiteData on, every entry of the page sample
\* is a document answered with HTTP 200 whose body is longer than 500
\* characters and that is tagged with the category it was discovered under
SampleEntriesQualified ==
  data # Null =>
    \A i \in 1..Len(data.blogSample) :
      /\ data.blogSample[i].status = 200
      /\ data.blogSample[i].text.len > 500
      /\ data.blogSample[i].category \in PageCategories

\* C14 at work: the audit of the plain site has ended with a blog page, a
\* page of a category variant and a content page in its sample, the short
\* pricing page having been left out
SampleOfThreeKinds ==
  /\ pc = "done"
  /\ \E i \in DOMAIN local.entries : local.entries[i].category = "pricing"
  /\ [i \in 1..Len(data.blogSample) |-> data.blogSample[i].category]
       = <<"blog", "about", "content">>

\* the rendering of the document failed at the import of the browser library,
\* at the launch of the browser or at the navigation
FailedToRender(which) == headless[which].attempted /\ headless[which].stage # "content"

\* C15: the audit is never rejected once it has called fetchWithHeadless; a
\* rendering that fails at the import, the launch or the navigation gives
\* null, and the snapshot keeps the document as it was fetched
HeadlessFailureDegrades ==
  /\ headless.home.attempted => pc # "rejected"
  /\ FailedToRender("home") =>
       /\ headless.home.result = Null
       /\ data.homepage = [local.homepage EXCEPT !.category = "homepage"]
       /\ ~renderedWithHeadless
  /\ FailedToRender("faq") =>
       /\ headless.faq.result = Null
       /\ data.faqPage = local.faqPage

\* C15 at work: the browser could not be launched for the shell of the SPA
\* site, and the audit has ended with the 23 results of the fetched documents
UnrenderedAuditCompleted ==
  /\ pc = "done"
  /\ site = "spa"
  /\ headless.home.stage = "launch"
  /\ isSpaShell(data.homepage.text)
  /\ Len(results) = 23

\* C4: after the headless phase the snapshot's homepage is the rendered
\* document exactly when a rendering was attempted and gave a document with
\* strictly more visible text than the fetched homepage; in every other case
\* it is the fetched homepage, unchanged
RenderedHomepageOnlyWhenRicher ==
  pc \in LaterPhases \ {"headless"} =>
    LET original == [local.homepage EXCEPT !.category = "homepage"]
        rendered == headless.home.result
        richer == /\ headless.home.attempted
                  /\ rendered # Null
                  /\ rendered.text.visLen > original.text.visLen
    IN /\ data.homepage = rendered <=> richer
       /\ ~richer => data.homepage = original
       /\ renderedWithHeadless <=> richer

\* C4 at work: the rendering of an SPA shell gave one character more of
\* visible text and has replaced the homepage
RicherRenderingKept ==
  /\ pc = "done"
  /\ headless.home.attempted
  /\ data.homepage = headless.home.result
  /\ data.homepage.text.visLen = local.homepage.text.visLen + 1
  /\ renderedWithHeadless

\* the two homepage URLs
HttpsHomepage == Url("https", domain, <<>>)
HttpHomepage == Url("http", domain, <<>>)

\* a step of the audit that respects the order of the two homepage requests
HttpAfterFailedHttps ==
  /\ CopiesIn(HttpHomepage, requested') > CopiesIn(HttpHomepage, requested) =>
       /\ CopiesIn(HttpsHomepage, requested) > 0
       /\ local.homepage = Null \/ local.homepage.status \notin 200..399
       /\ local.protocol = None
  /\ /\ pc = "https" /\ pc' # "rejected"
     /\ local'.homepage # Null /\ local'.homepage.status \in 200..399
     => local'.protocol = "https" /\ pc' # "http"
  /\ local' # Null /\ local'.protocol = "https" => CopiesIn(HttpHomepage, requested') = 0

\* C19: the HTTP homepage request goes out only once the HTTPS homepage request
\* has ended without a response or with a status outside 200..399; when the
\* HTTPS request succeeds the protocol is https and the HTTP homepage is never
\* requested
HttpOnlyAfterHttpsFailure == [][HttpAfterFailedHttps]_vars

\* C19 at work: the site answered 503 over HTTPS, and the HTTP homepage has
\* been requested after it
HttpTriedAfterServerError ==
  /\ site = "broken"
  /\ faults = 0
  /\ CopiesIn(HttpsHomepage, requested) = 1
  /\ CopiesIn(HttpHomepage, requested) = 1

\* the FAQ paths in the order of prefetchSiteData
FaqOrder == <<<<"faq">>, <<"frequently-asked-questions">>, <<"help">>, <<"support">>,
              <<"help-center">>>>

FaqUrl(k) == Url(local.protocol, domain, FaqOrder[k])

\* the answer is a response of status 200
Is200(outcome) == outcome.kind = "response" /\ outcome.status = 200

\* C20: while prefetchSiteData runs, the FAQ paths that have been requested
\* are the first n of /faq, /frequently-asked-questions, /help, /support,
\* /help-center, each requested once and none of the first n - 1 answered with
\* status 200; the snapshot's FAQ page is the answer of the n-th path when it
\* is a 200, and otherwise all five were requested and it is the answer of /faq
FaqChainStopsAtFirstOk ==
  (local # Null /\ (data = Null \/ pc = "prefetched")) =>
    LET n == Cardinality({k \in DOMAIN FaqOrder : CopiesIn(FaqUrl(k), requested) > 0})
    IN /\ \A k \in DOMAIN FaqOrder :
            CopiesIn(FaqUrl(k), requested) = IF k <= n THEN 1 ELSE 0
       /\ faults = 0 => \A k \in 1..(n - 1) : ~Is200(Respond(site, FaqUrl(k)))
       /\ pc = "prefetched" /\ n > 0 =>
            /\ data.faqPage # Null /\ data.faqPage.status = 200 =>
                 data.faqPage.finalUrl = FaqUrl(n)
            /\ faults = 0 =>
                 IF Is200(Respond(site, FaqUrl(n)))
                 THEN data.faqPage = fetchText(Respond(site, FaqUrl(n))).value
                 ELSE /\ n = Len(FaqOrder)
                      /\ data.faqPage = fetchText(Respond(site, FaqUrl(1))).value

\* C20 at work: /faq was answered 404 and /frequently-asked-questions 200;
\* the snapshot holds the latter, and /help was not requested
SecondFaqPathTaken ==
  /\ pc = "prefetched" /\ site = "plain" /\ faults = 0
  /\ CopiesIn(FaqUrl(2), requested) = 1
  /\ CopiesIn(FaqUrl(3), requested) = 0
  /\ data.faqPage.status = 200
  /\ data.faqPage.finalUrl = FaqUrl(2)

\* the common feed paths in the order of prefetchSiteData
RssOrder == <<<<"feed">>, <<"rss.xml">>, <<"feed.xml">>>>

RssFallbackUrl(k) == Url(local.protocol, domain, RssOrder[k])

\* the feed the homepage declares, if any
DeclaredFeed ==
  IF local.homepage = Null \/ local.homepage.text.rssHref = Null THEN Null
  ELSE rssUrl(local.protocol, domain, local.homepage.text.rssHref)

\* the answer is a 200 whose body holds one of the feed markers
IsFeed(outcome) ==
  /\ Is200(outcome)
  /\ Has(outcome.text, "<rss") \/ Has(outcome.text, "<feed") \/ Has(outcome.text, "<channel")

\* the fallback requests sent so far (a declared feed may be at a fallback path)
FallbackRequests(k, sent) ==
  CopiesIn(RssFallbackUrl(k), sent)
    - (IF DeclaredFeed = RssFallbackUrl(k) /\ pc # "rssLink" THEN 1 ELSE 0)

\* a step of prefetchSiteData that respects the two stages of the feed discovery
RssInTwoStages ==
  /\ data = Null /\ local.protocol # None =>
       /\ \* the declared feed is requested before any fallback
          /\ DeclaredFeed # Null
          /\ CopiesIn(DeclaredFeed, requested') > CopiesIn(DeclaredFeed, requested)
          /\ pc = "rssLink"
          => \A k \in DOMAIN RssOrder : CopiesIn(RssFallbackUrl(k), requested) = 0
       /\ \* a fallback is requested after a declared feed has failed and after
          \* the fallbacks before it, none of which was kept
          \A k \in DOMAIN RssOrder :
            /\ pc # "rssLink"
            /\ CopiesIn(RssFallbackUrl(k), requested') > CopiesIn(RssFallbackUrl(k), requested)
            => /\ DeclaredFeed # Null =>
                    /\ CopiesIn(DeclaredFeed, requested) > 0
                    /\ local.rssFeed = Null \/ local.rssFeed.status # 200
               /\ k > 1 => local.rssFeed = Null
               /\ \A j \in DOMAIN RssOrder :
                    FallbackRequests(j, requested) = IF j < k THEN 1 ELSE 0
  /\ \* the snapshot holds the declared feed's 200 answer, or the first
     \* fallback answer that is a feed, or no feed
     pc' = "prefetched" /\ local'.protocol # None /\ data'.redirectedTo = NoDomain
       /\ data'.parkedReason = Null =>
       LET n == Cardinality({k \in DOMAIN RssOrder : FallbackRequests(k, requested') > 0})
           feed == data'.rssFeed
       IN /\ feed # Null => feed.status = 200
          /\ feed # Null /\ n = 0 => feed.finalUrl = DeclaredFeed
          /\ feed # Null /\ n > 0 => feed.finalUrl = RssFallbackUrl(n) /\ looksLikeFeed(feed.text)
          /\ faults' = 0 =>
               /\ \A j \in 1..(n - 1) : ~IsFeed(Respond(site, RssFallbackUrl(j)))
               /\ n > 0 /\ ~IsFeed(Respond(site, RssFallbackUrl(n))) =>
                    n = Len(RssOrder) /\ feed = Null

\* C21: the feed a homepage declares is requested first; /feed, /rss.xml and
\* /feed.xml are requested, in that order, only when there is no declared feed
\* or its request gave no 200; the first of them whose 200 body holds a feed
\* marker is kept and ends the chain, and without one the snapshot has no feed
RssDiscoveryInTwoStages == [][RssInTwoStages]_vars

\* C21 at work: the declared feed could not be fetched, the three fallbacks
\* were requested and gave no feed, and the snapshot has none
DeclaredFeedFailedNoFallbackFeed ==
  /\ pc = "prefetched" /\ site = "plain"
  /\ CopiesIn(DeclaredFeed, requested) = 1
  /\ \A k \in DOMAIN RssOrder : CopiesIn(RssFallbackUrl(k), requested) = 1
  /\ data.rssFeed = Null

\* the homepage and the FAQ page, as fetched, are both SPA shells
BothShells ==
  /\ local.homepage # Null /\ isSpaShell(local.homepage.text)
  /\ local.faqPage # Null /\ isSpaShell(local.faqPage.text)

\* the rendering of the homepage gave a document with more visible text than
\* the fetched one
HomepageRenderedRicher ==
  /\ headless.home.result # Null
  /\ getTextLength(headless.home.result.text) > getTextLength(local.homepage.text)

\* C22 as claimed: with headless rendering enabled, the FAQ page is rendered
\* exactly when the fetched homepage and the fetched FAQ page are SPA shells,
\* and after the rendering of the homepage
FaqRenderedWheneverBothShells ==
  pc \in {"multipage", "pages", "score", "done"} /\ ~options.noHeadless =>
    /\ headless.faq.attempted <=> BothShells
    /\ headless.faq.attempted => headless.home.attempted

\* C22 as amended: with headless rendering enabled, the FAQ page is rendered
\* exactly when the fetched homepage and the fetched FAQ page are SPA shells
\* and the rendered homepage had more visible text than the fetched one, and
\* after the rendering of the homepage
FaqRenderedAfterRicherHomepage ==
  /\ pc \in {"multipage", "pages", "score", "done"} /\ ~options.noHeadless =>
       headless.faq.attempted <=> BothShells /\ HomepageRenderedRicher
  /\ headless.faq.attempted => headless.home.attempted /\ pc # "headless"

\* C22 at work: both pages were shells, the homepage was rendered with more
\* text, and the FAQ page was rendered after it
FaqRenderedSecond ==
  /\ pc = "multipage" /\ ~options.noHeadless
  /\ BothShells /\ HomepageRenderedRicher
  /\ headless.home.attempted /\ headless.faq.attempted

\* the URLs the snapshot knows: its homepage's and the final URLs of its page
\* sample
KnownUrls ==
  {Url(data.protocol, domain, <<>>)}
    \cup {data.blogSample[i].finalUrl : i \in DOMAIN data.blogSample}

\* a step of the page discovery requests no known URL and no URL twice
DiscoveryRequestsNew ==
  pc = "multipage" =>
    \A url \in BagToSet(requested') :
      /\ CopiesIn(url, requested') <= CopiesIn(url, requested) + 1
      /\ CopiesIn(url, requested') > CopiesIn(url, requested) => url \notin KnownUrls

\* C23: fetchMultiPageData requests neither the homepage's URL nor the final
\* URL of a page of the sample, and requests no candidate URL twice
DiscoverySkipsKnownUrls == [][DiscoveryRequestsNew]_vars

\* C23 at work: the sitemap names a sampled page and names /platform twice;
\* the candidates are requested, the sampled page is not requested again and
\* /platform is requested once
KnownPageNotRequestedAgain ==
  /\ pc = "pages" /\ site = "plain"
  /\ Url("https", Example, <<"platform", "overview">>) \in KnownUrls
  /\ CopiesIn(Url("https", Example, <<"platform", "overview">>), requested) = 1
  /\ CopiesIn(Url("https", Example, <<"platform">>), requested) = 1

(***************************************************************************)
(* Choosing content pages of a given sitemap: extractContentPagesFromSitemap *)
(* applied to a sitemap text and a limit                                   *)
(***************************************************************************)
\* the most eligible pages of an enumerated sitemap, and the largest limit
MaxEligible == 6
MaxLimit == 4

\* pages of the domain with one to three path segments, none on the denylist
EligiblePages ==
  <<Url("https", Example, <<"platform">>),
    Url("https", Example, <<"platform", "overview">>),
    Url("https", <<"www", "example", "com">>, <<"solutions">>),
    Url("https", Example, <<"x", "y", "z">>),
    Url("http", Example, <<"features">>),
    Url("https", Example, <<"integrations">>),
    Url("https", Example, <<"platform", "security">>),
    Url("https", Example, <<"partners">>)>>

\* another domain's page, a denylisted page, a page four segments deep, the
\* root, and a <loc> that is no URL
OtherBlocks ==
  {[loc |-> Url("https", <<"other", "com">>, <<"platform">>), lastmod |-> 0],
   [loc |-> Url("https", Example, <<"about">>), lastmod |-> 0],
   [loc |-> Url("https", Example, <<"a", "b", "c", "d">>), lastmod |-> 0],
   [loc |-> Url("https", Example, <<>>), lastmod |-> 0],
   [loc |-> Null, lastmod |-> 0]}

\* the elements of a set, in some order
RECURSIVE ListOf(_)
ListOf(S) == IF S = {} THEN <<>> ELSE LET x == CHOOSE y \in S : TRUE IN <<x>> \o ListOf(S \ {x})

\* sitemaps with the first n eligible pages, other blocks standing after the
\* first of them
ContentSitemaps ==
  {[Page(900, 0, {"<urlset", "<loc>"})
      EXCEPT !.urls = [i \in 1..Min(1, n) |-> [loc |-> EligiblePages[i], lastmod |-> 0]]
                        \o ListOf(S)
                        \o [i \in 1..(n - Min(1, n)) |->
                              [loc |-> EligiblePages[i + 1], lastmod |-> 0]]] :
     n \in 0..MaxEligible, S \in SUBSET OtherBlocks}

InitContent ==
  /\ pc = "sitemap read"
  /\ \E sitemapText \in ContentSitemaps, limit \in 1..MaxLimit :
       local = [sitemapText |-> sitemapText, limit |-> limit, contentUrls |-> <<>>]
  /\ domain = Example /\ site = "none"
  /\ options = [noHeadless |-> FALSE, noMultiPage |-> FALSE]
  /\ data = Null /\ results = <<>> /\ overallScore = NoScore
  /\ tasks = <<>> /\ requested = EmptyBag /\ faults = 0
  /\ headless = Null /\ renderedWithHeadless = FALSE /\ error = Null

\* extractContentPagesFromSitemap(sitemapText, domain, limit)
ExtractContentPages ==
  /\ pc = "sitemap read"
  /\ local' = [local EXCEPT !.contentUrls =
                 extractContentPagesFromSitemap(local.sitemapText, domain, local.limit)]
  /\ pc' = "extracted"
  /\ UNCHANGED <<data, results, overallScore, domain, site, options, tasks, requested,
                 faults, headless, renderedWithHeadless, error>>

NextContent == ExtractContentPages

SpecContent == InitContent /\ [][NextContent]_vars

(***************************************************************************)
(* Properties of the choice of content pages                               *)
(***************************************************************************)
\* the eligible pages of the sitemap, in its order
EligibleOf(sitemapText) ==
  LET IsEligible(block) == block.loc \in Range(EligiblePages)
      blocks == SelectSeq(sitemapText.urls, IsEligible)
  IN [i \in 1..Len(blocks) |-> blocks[i].loc]

\* the places of the list are taken in increasing order and with steps that
\* differ by one at most
EvenlySpaced(places) ==
  /\ \A i \in 1..(Len(places) - 1) : places[i] < places[i + 1]
  /\ \A i, j \in 1..(Len(places) - 1) :
       (places[i + 1] - places[i]) - (places[j + 1] - places[j]) \in -1..1

\* C24: for a limit of at least 1, extractContentPagesFromSitemap returns
\* min(limit, E) of the E eligible URLs of the sitemap; when E > limit they are
\* evenly spaced over the eligible URLs in the sitemap's order, from the first
\* to the last
ContentPagesEvenlySpaced ==
  pc = "extracted" =>
    LET eligible == EligibleOf(local.sitemapText)
        returned == local.contentUrls
    IN /\ Len(returned) = Min(local.limit, Len(eligible))
       /\ \A i \in DOMAIN returned : returned[i] \in Range(eligible)
       /\ Len(eligible) <= local.limit => returned = eligible
       /\ Len(eligible) > local.limit =>
            /\ returned[1] = eligible[1]
            /\ returned[Len(returned)] = eligible[Len(eligible)]
            /\ \E places \in [DOMAIN returned -> DOMAIN eligible] :
                 /\ EvenlySpaced(places)
                 /\ \A i \in DOMAIN returned : returned[i] = eligible[places[i]]

\* C25: while prefetchSiteData runs and when it has returned, no URL has been
\* requested more than once
NoUrlRequestedTwice ==
  data = Null \/ pc = "prefetched" =>
    \A url \in BagToSet(requested) : CopiesIn(url, requested) = 1

(***************************************************************************)
(* Classifying a given page: classifyRendering applied to its HTML         *)
(***************************************************************************)
\* what a page can hold of the things the patterns look for
RenderingFeatures ==
  {"<div id=\"root\"></div>", "<div id=\"app\"></div>", "<div id=\"__vue\"></div>",
   "<div id=\"__vue\">", "__NEXT_DATA__", "__NUXT__", "src=\"/static/js/main.[hex].js\"",
   "src=\"/assets/index-[hex].js\"", "data-reactroot", "ng-version",
   "<noscript>requires javascript</noscript>"}

\* pages with 120, 499 or 500 characters of visible text
RenderingInputs ==
  {Page(3000, vis, S) : vis \in {120, 499, 500}, S \in SUBSET RenderingFeatures}

InitRendering ==
  /\ pc = "page read"
  /\ \E html \in RenderingInputs : local = [html |-> html, classification |-> Null]
  /\ domain = Example /\ site = "none"
  /\ options = [noHeadless |-> FALSE, noMultiPage |-> FALSE]
  /\ data = Null /\ results = <<>> /\ overallScore = NoScore
  /\ tasks = <<>> /\ requested = EmptyBag /\ faults = 0
  /\ headless = Null /\ renderedWithHeadless = FALSE /\ error = Null

\* classifyRendering(html)
ClassifyRendering ==
  /\ pc = "page read"
  /\ local' = [local EXCEPT !.classification = classifyRendering(local.html)]
  /\ pc' = "page classified"
  /\ UNCHANGED <<data, results, overallScore, domain, site, options, tasks, requested,
                 faults, headless, renderedWithHeadless, error>>

NextRendering == ClassifyRendering

SpecRendering == InitRendering /\ [][NextRendering]_vars

(***************************************************************************)
(* Properties of the classification of a page                              *)
(***************************************************************************)
\* the page has less than 500 characters of visible text and holds something
\* an SPA leaves in its shell
IsShell(html) ==
  /\ getTextLength(html) < 500
  /\ \E feature \in RenderingFeatures \ {"<div id=\"__vue\">"} : Has(html, feature)

\* the framework of the first entry of the priority list of which the page
\* holds a feature, None without one
FirstFramework(priority, html) ==
  LET matching == {i \in DOMAIN priority : \E f \in priority[i].features : Has(html, f)}
  IN IF matching = {} THEN None
     ELSE priority[CHOOSE i \in matching : \A j \in matching : i <= j].framework

\* Next, Nuxt, Vue, Angular, the React marker, the React-CRA bundle, the Vite
\* bundle
ClaimedPriority ==
  <<[features |-> {"__NEXT_DATA__"}, framework |-> "next"],
    [features |-> {"__NUXT__"}, framework |-> "nuxt"],
    [features |-> {"<div id=\"__vue\"></div>", "<div id=\"__vue\">"}, framework |-> "vue"],
    [features |-> {"ng-version"}, framework |-> "angular"],
    [features |-> {"data-reactroot"}, framework |-> "react"],
    [features |-> {"src=\"/static/js/main.[hex].js\""}, framework |-> "react"],
    [features |-> {"src=\"/assets/index-[hex].js\""}, framework |-> "vite"]>>

\* the same, with the empty root or app mount point as a sign of React after
\* the React marker
PriorityWithMountPoint ==
  SubSeq(ClaimedPriority, 1, 5)
    \o <<[features |-> {"<div id=\"root\"></div>", "<div id=\"app\"></div>"},
          framework |-> "react"]>>
    \o SubSeq(ClaimedPriority, 6, 7)

\* C26 as claimed: a shell is reported as client-spa with the framework of
\* the first of Next, Nuxt, Vue, Angular, React marker, React-CRA bundle and
\* Vite bundle that matches, or null; any other page as server with null
FrameworkByClaimedPriority ==
  pc = "page classified" =>
    local.classification =
      IF IsShell(local.html)
      THEN [method |-> "client-spa", framework |-> FirstFramework(ClaimedPriority, local.html)]
      ELSE [method |-> "server", framework |-> None]

\* C26 as amended: a shell is reported as client-spa with the framework of
\* the first of Next, Nuxt, Vue, Angular, React marker, empty root or app
\* mount point (React), React-CRA bundle and Vite bundle that matches, or
\* null; any other page as server with null
FrameworkByPriority ==
  pc = "page classified" =>
    local.classification =
      IF IsShell(local.html)
      THEN [method |-> "client-spa",
            framework |-> FirstFramework(PriorityWithMountPoint, local.html)]
      ELSE [method |-> "server", framework |-> None]

\* C26 at work: a shell with an empty root mount point and a Vite bundle is
\* reported as a React page
ViteShellWithRootReportedAsReact ==
  /\ pc = "page classified"
  /\ IsShell(local.html)
  /\ Has(local.html, "<div id=\"root\"></div>")
  /\ Has(local.html, "src=\"/assets/index-[hex].js\"")
  /\ ~Has(local.html, "data-reactroot") /\ ~Has(local.html, "ng-version")
  /\ local.classification = [method |-> "client-spa", framework |-> "react"]

(***************************************************************************)
(* Scoring a snapshot without and with more sampled pages                  *)
(***************************************************************************)
\* a sampled page full of what the evaluators count on the homepage
BusyPage ==
  BlogPage([Text(30000, {"<title>", "<main[ >]", "lang="})
              EXCEPT !.m = @ (+) BagOf([x \in {"<h1[ >]", "<img>", "<a href=internal>"} |-> 5]),
                     !.ldBlocks = 1, !.ldQuoted = {"thing"}, !.ldProps = {"@type"}])

\* the pages that are added to a snapshot: a long page that holds nothing, a
\* busy one, and a copy of the snapshot's own homepage
PagesToAdd(snapshot) ==
  {<<BlogPage(Text(200000, {}))>>, <<BusyPage>>, <<BusyPage, BlogPage(Text(200000, {}))>>}
    \cup (IF snapshot.homepage = Null THEN {}
          ELSE {<<BlogPage(snapshot.homepage.text)>>})

InitSample ==
  /\ pc = "sampled"
  /\ data \in EvalInputs
  /\ \E pages \in PagesToAdd(data) : local = [pages |-> pages, without |-> <<>>]
  /\ results = <<>> /\ overallScore = NoScore
  /\ domain = <<>> /\ site = "none"
  /\ options = [noHeadless |-> FALSE, noMultiPage |-> FALSE]
  /\ tasks = <<>> /\ requested = EmptyBag /\ faults = 0
  /\ headless = Null /\ renderedWithHeadless = FALSE /\ error = Null

\* auditSiteFromData(data), and then data.blogSample.push(...pages)
EvaluateWithout ==
  /\ pc = "sampled"
  /\ local' = [local EXCEPT !.without = auditSiteFromData(data)]
  /\ data' = [data EXCEPT !.blogSample = push(@, local.pages)]
  /\ pc' = "more sampled"
  /\ UNCHANGED <<results, overallScore, domain, site, options, tasks, requested, faults,
                 headless, renderedWithHeadless, error>>

\* auditSiteFromData(data), with the pages
EvaluateWith ==
  /\ pc = "more sampled"
  /\ results' = auditSiteFromData(data)
  /\ pc' = "compared"
  /\ UNCHANGED <<data, overallScore, domain, site, options, local, tasks, requested,
                 faults, headless, renderedWithHeadless, error>>

NextSample == EvaluateWithout \/ EvaluateWith

SpecSample == InitSample /\ [][NextSample]_vars

LargeAudits ==
  {[domain |-> Example, site |-> "large",
    options |-> [noHeadless |-> FALSE, noMultiPage |-> FALSE]]}

InitLarge ==
  /\ \E a \in Audits \cup LargeAudits :
       domain = a.domain /\ site = a.site /\ options = a.options
  /\ pc = "https"
  /\ data = Null
  /\ results = <<>>
  /\ overallScore = NoScore
  /\ local = NoLocals
  /\ tasks = <<>>
  /\ requested = EmptyBag
  /\ faults = 0
  /\ headless = [home |-> NotRendered, faq |-> NotRendered]
  /\ renderedWithHeadless = FALSE
  /\ error = Null

SpecLarge == InitLarge /\ [][Next]_vars

\* Every request and every render ends, every continuation that can run
\* does, and the scoring, one synchronous computation that can always run
\* once it is reached, is carried out: []<>(pc # "score") is WF_vars(Score),
\* Score being enabled exactly where pc = "score" and leaving that place
FairSpecLarge == SpecLarge /\ WF_vars(Acquisition) /\ []<>(pc # "score")

\* the requests one audit can make: the homepage over both protocols, the
\* five standard documents, the other FAQ paths, the declared feed and the
\* common feed paths, one sub-sitemap, ten blog pages, one page for each
\* category and six pages of the sitemap
MaxRequests ==
  2 + 5 + Len(faqFallbacks) + 1 + Len(rssFallbacks) + 1 + 10 + Len(PAGE_VARIANTS) + 6

\* the pages given to the headless browser so far
Renders ==
  (IF headless.home.attempted THEN 1 ELSE 0) + (IF headless.faq.attempted THEN 1 ELSE 0)

Finished == pc \in {"done", "rejected"}

\* C28: audit() always finishes, by returning or by rejecting, provided each
\* of its requests and renders finishes, and it does so after a number of
\* requests bounded by a constant whatever the site holds: never more than
\* MaxRequests documents asked for and never more than two pages rendered
AuditEndsWithinBoundedRequests ==
  /\ [](BagCardinality(requested) <= MaxRequests /\ Renders <= 2)
  /\ <>Finished

\* an audit has returned after asking for as many documents as it may
AuditReturnedAfterMostRequests ==
  /\ pc = "done"
  /\ BagCardinality(requested) = MaxRequests
  /\ Len(local.blogUrls) = 10
  /\ Len(local.entries) = Len(PAGE_VARIANTS) + 6


(***************************************************************************)
(* fetchWithHeadless step by step: the import, the launch, the calls on    *)
(* the page, each of which can throw, and the finally block                *)
(***************************************************************************)
\* the pages given to the browser and what it makes of them
BrowserUrls == {Url("https", Example, <<>>), Url("https", Example, <<"faq">>),
                Url("http", Example, <<>>)}

BrowserPages == {[SpaShell EXCEPT !.visLen = v, !.textLen = v] : v \in {90, 120, 2120}}

\* the awaited calls between the launch and the wait for the body, in order
PageCalls == <<"newPage", "setRequestInterception", "setUserAgent", "goto">>

\* the locals of fetchWithHeadless before the import
InitBrowser ==
  /\ pc = "import"
  /\ \E url \in BrowserUrls, page \in BrowserPages :
       local = [url |-> url, page |-> page, browser |-> None, launched |-> 0,
                closeCalls |-> 0, call |-> 1, waited |-> FALSE, result |-> Null]
  /\ domain = Example /\ site = "none"
  /\ options = [noHeadless |-> FALSE, noMultiPage |-> FALSE]
  /\ data = Null /\ results = <<>> /\ overallScore = NoScore
  /\ tasks = <<>> /\ requested = EmptyBag /\ faults = 0
  /\ headless = Null /\ renderedWithHeadless = FALSE /\ error = Null

Elsewhere ==
  UNCHANGED <<data, results, overallScore, domain, site, options, tasks, requested,
              faults, headless, renderedWithHeadless, error>>

\* lines 102 to 108: without the library null is returned before any launch
Import ==
  /\ pc = "import"
  /\ \E thrown \in BOOLEAN : pc' = IF thrown THEN "returned" ELSE "launch"
  /\ UNCHANGED local
  /\ Elsewhere

\* lines 115 to 125: browser = await puppeteer.launch(...)
Launch ==
  /\ pc = "launch"
  /\ \E thrown \in BOOLEAN :
       IF thrown
       THEN pc' = "finally" /\ UNCHANGED local
       ELSE /\ pc' = "page"
            /\ local' = [local EXCEPT !.browser = "open", !.launched = @ + 1]
  /\ Elsewhere

\* lines 127 to 141: newPage, setRequestInterception, setUserAgent and goto
PageCall ==
  /\ pc = "page"
  /\ \E thrown \in BOOLEAN :
       IF thrown
       THEN pc' = "finally" /\ UNCHANGED local
       ELSE /\ local' = [local EXCEPT !.call = @ + 1]
            /\ pc' = IF local.call = Len(PageCalls) THEN "wait" ELSE "page"
  /\ Elsewhere

\* lines 144 to 151: what waitForFunction throws is caught on the spot
WaitForBody ==
  /\ pc = "wait"
  /\ \E thrown \in BOOLEAN : local' = [local EXCEPT !.waited = ~thrown]
  /\ pc' = "content"
  /\ Elsewhere

\* lines 153 to 160: the rendered document is the value to return
Content ==
  /\ pc = "content"
  /\ \E thrown \in BOOLEAN :
       local' = [local EXCEPT
                   !.result = IF thrown THEN Null
                              ELSE [text |-> truncate(local.page), status |-> 200,
                                    finalUrl |-> local.url, category |-> None]]
  /\ pc' = "finally"
  /\ Elsewhere

\* A finally block that closes nothing
closesNothing(browser) == FALSE

\* line 164: if (browser)
closes(browser) == browser # None

\* lines 161 to 171: catch returns null, and finally closes the browser that
\* was launched; what close() throws is ignored
Finally ==
  /\ pc = "finally"
  /\ IF closes(local.browser)
     THEN \E thrown \in BOOLEAN :
            local' = [local EXCEPT !.closeCalls = @ + 1,
                                   !.browser = IF thrown THEN "close failed" ELSE "closed"]
     ELSE UNCHANGED local
  /\ pc' = "returned"
  /\ Elsewhere

NextBrowser == Import \/ Launch \/ PageCall \/ WaitForBody \/ Content \/ Finally

SpecBrowser == InitBrowser /\ [][NextBrowser]_vars

FetchedFaqUrl ==
  IF local.faqPage # Null /\ local.faqPage.status = 200 THEN FaqUrl(local.faqStep + 1)
  ELSE FaqUrl(1)

\* C30: when the FAQ page is rendered by the browser, the URL rendered is the
\* URL from which the snapshot's FAQ document was fetched, which may be one
\* of the fallback paths rather than /faq
RenderedFaqUrlIsFetchedUrl ==
  headless.faq.attempted => headless.faq.url = FetchedFaqUrl

====
